---- MODULE Spec2Model ----
(***************************************************************************)
(* fitness-extractor: the incremental synchronisation protocol.            *)
(*                                                                         *)
(* Two state machines are modelled.                                        *)
(*   Spec              the Sync Ingestion Service and its Record Store     *)
(*                     (backend: syncController.ts and the services).      *)
(*   SpecOrchestrator  the client-side sync orchestrator                   *)
(*                     (iOS: SyncService.swift, APIClient, AppDelegate).   *)
(***************************************************************************)
EXTENDS Integers, Sequences, FiniteSets, TLC

VARIABLES
    \* ---- Ingestion Service / Record Store ----
    endpoint,        \* the sync endpoint the behaviour exercises
    workouts,        \* table workouts
    workout_routes,  \* table workout_routes
    health_metrics,  \* table health_metrics
    activity_rings,  \* table activity_rings
    sync_anchors,    \* table sync_anchors
    req,             \* req.body of the request received last
    res,             \* response sent for req, NoRes while it is not handled
    got,             \* the GET answered last since the last POST: its route,
                     \* its parameters and the response sent
    gate,            \* the request the key check decided last: the route it
                     \* asked for, the key header it carried and the status
                     \* the check answered, 0 when it called next()
    lastPut,         \* (history) the payload of the anchor put last for each
                     \* (owner, data type)
    tx,              \* the storage transaction each concurrent writer is in:
                     \* where it stands, its record, the rows it has written
                     \* and not committed yet, what it returns
    pool,            \* the writers that hold a client checked out of the pool
    lastCommit,      \* (history) the record of the upsert committed last for
                     \* each key of the mutable tables
    \* ---- Sync orchestrator (iOS client) ----
    isSyncing,       \* SyncService.isSyncing
    lastSyncDate,    \* SyncService.lastSyncDate / UserDefaults lastSyncDate
    syncError,       \* SyncService.syncError
    savedAnchor,     \* UserDefaults: the archived HKQueryAnchor of each data type
    task,            \* the Swift task of each trigger source: where it is
                     \* suspended and the locals it holds
    inbox,           \* the result an awaited call has produced for a task that
                     \* has not resumed yet
    anchorsAtStart,  \* (history) the anchors when the run in progress began
    unsent,          \* (history) for each anchored data type, whether HealthKit
                     \* holds records that a query returned and no accepted
                     \* submission carried, and whether their dates still lie
                     \* in the window of the next query
    \* ---- HealthKit (upstream source) ----
    healthStore,     \* the workouts HKHealthStore holds: each with its place
                     \* in the order they were saved and its start date
    fetched,         \* the anchored query executed last on healthStore: the
                     \* anchor and lastSyncDate it was made with, its result
    handler          \* the update handler HealthKit called last on an observer
                     \* query: whether it was called, whether HealthKit still
                     \* waits for its completion handler, and the calls made
                     \* to that completion handler

txVars == <<tx, pool, lastCommit>>

serverVars == <<endpoint, workouts, workout_routes, health_metrics,
                activity_rings, sync_anchors, req, res, got, gate, lastPut,
                tx, pool, lastCommit>>

clientVars == <<isSyncing, lastSyncDate, syncError, savedAnchor, task, inbox,
                anchorsAtStart, unsent>>

hkVars == <<healthStore, fetched, handler>>

vars == <<endpoint, workouts, workout_routes, health_metrics,
          activity_rings, sync_anchors, req, res, got, gate, lastPut,
          tx, pool, lastCommit,
          isSyncing, lastSyncDate, syncError, savedAnchor, task, inbox,
          anchorsAtStart, unsent, healthStore, fetched, handler>>

----------------------------------------------------------------------------
(* Bounds *)

MaxBatch == 2     \* longest record list of a request
MaxSamples == 1   \* samples HealthKit comes to hold of one data type (its newest anchor)
MaxStored == 2    \* workouts the HealthKit store of the query model comes to hold

----------------------------------------------------------------------------
(* Values on the wire *)

Users == {"user-1"}
NoUser == ""                      \* user_id missing from the body (falsy)

\* The healthkit_uuid values a producer sends
Uuids == {"uuid-1", "uuid-2"}

NULL == "NULL"

\* Coordinates are counted in tenths of the last digit a DECIMAL(10, 7)
\* column keeps: the column holds the multiples of Step, below LatLonLimit in
\* absolute value.  A coordinate of the wire format (a double) is any count.
LatLonLimit == 1000
Step == 10

Point(lat, lon) == [lat |-> lat, lon |-> lon]

NoRoute == << >>
GoodRoute == << Point(30, 0 - 74), Point(12, 90) >>
BadRoute == << Point(2, 5), Point(LatLonLimit, 5) >>

\* WorkoutData without its healthkit_uuid: a plain workout, a workout with a
\* GPS route, a workout whose route cannot be stored, and one without its type.
WorkoutForms ==
    { [workout_type |-> "Running", route |-> NoRoute],
      [workout_type |-> NULL, route |-> NoRoute],
      [workout_type |-> "Cycling", route |-> GoodRoute],
      [workout_type |-> "Running", route |-> BadRoute] }

WorkoutData ==
    { [healthkit_uuid |-> u, workout_type |-> f.workout_type, route |-> f.route] :
        u \in Uuids, f \in WorkoutForms }

\* HealthMetricData: two well-formed samples and one without a value.
HealthMetricData ==
    [healthkit_uuid : Uuids, metric_type : {"heartRate"}, value : {"72.0", "80.0", NULL}]

Dates == {"2025-01-15", "2025-01-16"}

\* ActivityRingData: goal, actual and percent of the move, exercise and stand
\* rings.  Two days' values that differ in every field, and one that lacks a
\* required field.
RingFields ==
    {"move_goal_kcal", "move_actual_kcal", "move_percent",
     "exercise_goal_minutes", "exercise_actual_minutes", "exercise_percent",
     "stand_goal_hours", "stand_actual_hours", "stand_percent"}

RingForms ==
    { [move_goal_kcal |-> "500", move_actual_kcal |-> "450", move_percent |-> "90.0",
       exercise_goal_minutes |-> "30", exercise_actual_minutes |-> "15",
       exercise_percent |-> "50.0",
       stand_goal_hours |-> "12", stand_actual_hours |-> "10", stand_percent |-> "83.3"],
      [move_goal_kcal |-> "600", move_actual_kcal |-> "725", move_percent |-> "120.8",
       exercise_goal_minutes |-> "40", exercise_actual_minutes |-> "42",
       exercise_percent |-> "105.0",
       stand_goal_hours |-> "10", stand_actual_hours |-> "11", stand_percent |-> "110.0"],
      [move_goal_kcal |-> "600", move_actual_kcal |-> NULL, move_percent |-> "120.8",
       exercise_goal_minutes |-> "40", exercise_actual_minutes |-> "42",
       exercise_percent |-> "105.0",
       stand_goal_hours |-> "10", stand_actual_hours |-> "11", stand_percent |-> "110.0"] }

ActivityRingData ==
    { [f \in RingFields \cup {"date"} |-> IF f = "date" THEN d ELSE form[f]] :
        d \in Dates, form \in RingForms }

DataTypes == {"workouts", "heartRate"}

SyncAnchorData == [data_type : DataTypes, anchor_data : {"anchor-1", "anchor-2", NULL}]

Endpoints == {"workouts", "health-metrics", "activity-rings", "anchors"}

RecordsOf(e) ==
    CASE e = "workouts" -> WorkoutData
      [] e = "health-metrics" -> HealthMetricData
      [] e = "activity-rings" -> ActivityRingData
      [] e = "anchors" -> SyncAnchorData

RECURSIVE SeqsUpTo(_, _)
SeqsUpTo(S, n) ==
    IF n = 0 THEN { << >> }
    ELSE LET shorter == SeqsUpTo(S, n - 1)
         IN  shorter \cup { Append(s, x) : s \in { t \in shorter : Len(t) = n - 1 }, x \in S }

\* A JSON value in the list position of a body: an array, nothing, or
\* something that is not an array.
JsArray(s) == [t |-> "array", v |-> s]
JsUndefined == [t |-> "undefined", v |-> << >>]
JsObject == [t |-> "object", v |-> << >>]

Truthy(x) == x.t # "undefined"
IsArray(x) == x.t = "array"

\* The bodies a producer posts to endpoint e
Bodies(e) ==
    [user_id : Users \cup {NoUser},
     list : { JsArray(s) : s \in SeqsUpTo(RecordsOf(e), MaxBatch) }
              \cup {JsUndefined, JsObject}]

----------------------------------------------------------------------------
(* Storage *)

\* What can go wrong with the storage connection while one record is
\* processed: nothing; pool.connect() rejects; a statement of the transaction
\* rejects and the ROLLBACK goes through; a statement rejects and so does the
\* ROLLBACK (the connection is gone).
FaultKinds == {"none", "connect", "query", "rollback"}

NotNullViolation == "null value violates not-null constraint"
NumericOverflow == "numeric field overflow"
ConnectionLost == "Connection terminated unexpectedly"
DuplicateWorkout == "Duplicate workout"
DuplicateMetric == "Duplicate metric"

Max(S) == CHOOSE x \in S : \A y \in S : y <= x
Min(S) == CHOOSE x \in S : \A y \in S : x <= y

\* id ... DEFAULT gen_random_uuid(): an id no row of the table has
NewId(table) == IF table = {} THEN 1 ELSE 1 + Max({ r.id : r \in table })

\* An INSERT with no ON CONFLICT arbitration: no row is ever in the way
ConflictNever(table, healthkit_uuid) == FALSE

\* ON CONFLICT (healthkit_uuid) DO NOTHING: a row with this key is there
Conflict(table, healthkit_uuid) ==
    \E r \in table : r.healthkit_uuid = healthkit_uuid

\* A catch block that commits what the transaction had done
RollbackNothing(before, after) == after

\* ROLLBACK: the table as it was when the transaction began, whatever the
\* transaction had done to it
Rollback(before, after) == before

\* Outcome of one service call: it returned a SyncResult or it threw
Returned(ok, err, upd, W, R) ==
    [thrown |-> FALSE, success |-> ok, error |-> err, updated |-> upd,
     table |-> W, routes |-> R]
Threw(W, R) ==
    [thrown |-> TRUE, success |-> FALSE, error |-> "", updated |-> FALSE,
     table |-> W, routes |-> R]

Abs(x) == IF x < 0 THEN 0 - x ELSE x

\* What a DECIMAL(10, 7) column keeps of a number: the number rounded to the
\* scale of the column, ties away from zero
Decimal10_7(x) ==
    LET kept == ((Abs(x) + (Step \div 2)) \div Step) * Step
    IN  IF x < 0 THEN 0 - kept ELSE kept

\* min_latitude .. max_longitude DECIMAL(10, 7): the rounded number has at
\* most three digits before the point, or the INSERT is rejected
FitsDecimal10_7(x) == Abs(Decimal10_7(x)) < LatLonLimit

BoundingBox(points) ==
    LET lats == { points[i].lat : i \in 1..Len(points) }
        lons == { points[i].lon : i \in 1..Len(points) }
    IN  [min_latitude |-> Min(lats), max_latitude |-> Max(lats),
         min_longitude |-> Min(lons), max_longitude |-> Max(lons)]

\* An insert that writes a route row for every workout, with whatever points
\* the record carries
insertWorkoutAlwaysRoute(W, R, userId, workout, fault) ==
    IF fault = "connect" THEN Threw(W, R)
    ELSE IF fault = "rollback" THEN Threw(W, R)
    ELSE IF fault = "query" THEN Returned(FALSE, ConnectionLost, FALSE, W, R)
    ELSE IF workout.workout_type = NULL
         THEN Returned(FALSE, NotNullViolation, FALSE, W, R)
    ELSE IF Conflict(W, workout.healthkit_uuid)
         THEN Returned(FALSE, DuplicateWorkout, FALSE, W, R)
    ELSE LET workoutId == NewId(W)
             row == [id |-> workoutId, user_id |-> userId,
                     healthkit_uuid |-> workout.healthkit_uuid,
                     workout_type |-> workout.workout_type]
             points == workout.route
             box == IF Len(points) > 0 THEN BoundingBox(points)
                    ELSE [min_latitude |-> 0, max_latitude |-> 0,
                          min_longitude |-> 0, max_longitude |-> 0]
             route == [workout_id |-> workoutId, route_points |-> points,
                       total_points |-> Len(points),
                       min_latitude |-> Decimal10_7(box.min_latitude),
                       max_latitude |-> Decimal10_7(box.max_latitude),
                       min_longitude |-> Decimal10_7(box.min_longitude),
                       max_longitude |-> Decimal10_7(box.max_longitude)]
         IN  IF /\ FitsDecimal10_7(box.min_latitude)
                /\ FitsDecimal10_7(box.max_latitude)
                /\ FitsDecimal10_7(box.min_longitude)
                /\ FitsDecimal10_7(box.max_longitude)
             THEN Returned(TRUE, "", FALSE, W \cup {row}, R \cup {route})
             ELSE Returned(FALSE, NumericOverflow, FALSE,
                           Rollback(W, W \cup {row}), R)

insertWorkout(W, R, userId, workout, fault) ==
    IF fault = "connect" THEN Threw(W, R)
    ELSE IF fault = "rollback" THEN Threw(W, R)
    ELSE IF fault = "query" THEN Returned(FALSE, ConnectionLost, FALSE, W, R)
    ELSE IF workout.workout_type = NULL
         THEN Returned(FALSE, NotNullViolation, FALSE, W, R)
    ELSE IF Conflict(W, workout.healthkit_uuid)
         THEN Returned(FALSE, DuplicateWorkout, FALSE, W, R)
    ELSE LET workoutId == NewId(W)
             row == [id |-> workoutId, user_id |-> userId,
                     healthkit_uuid |-> workout.healthkit_uuid,
                     workout_type |-> workout.workout_type]
             points == workout.route
         IN  IF Len(points) > 0
             THEN LET box == BoundingBox(points)
                      route == [workout_id |-> workoutId, route_points |-> points,
                                total_points |-> Len(points),
                                min_latitude |-> Decimal10_7(box.min_latitude),
                                max_latitude |-> Decimal10_7(box.max_latitude),
                                min_longitude |-> Decimal10_7(box.min_longitude),
                                max_longitude |-> Decimal10_7(box.max_longitude)]
                  IN  IF /\ FitsDecimal10_7(box.min_latitude)
                         /\ FitsDecimal10_7(box.max_latitude)
                         /\ FitsDecimal10_7(box.min_longitude)
                         /\ FitsDecimal10_7(box.max_longitude)
                      THEN Returned(TRUE, "", FALSE, W \cup {row}, R \cup {route})
                      ELSE Returned(FALSE, NumericOverflow, FALSE,
                                    Rollback(W, W \cup {row}), R)
             ELSE Returned(TRUE, "", FALSE, W \cup {row}, R)

\* An insert that arbitrates with ON CONFLICT (healthkit_uuid) DO UPDATE SET
\* value = EXCLUDED.value: the sample on file takes the value submitted
replaceHealthMetric(M, userId, metric, fault) ==
    IF fault = "connect" THEN Threw(M, {})
    ELSE IF fault = "rollback" THEN Threw(M, {})
    ELSE IF fault = "query" THEN Returned(FALSE, ConnectionLost, FALSE, M, {})
    ELSE IF metric.value = NULL
         THEN Returned(FALSE, NotNullViolation, FALSE, M, {})
    ELSE IF Conflict(M, metric.healthkit_uuid)
         THEN Returned(TRUE, "", TRUE,
                       { IF r.healthkit_uuid = metric.healthkit_uuid
                         THEN [r EXCEPT !.value = metric.value] ELSE r :
                         r \in M }, {})
    ELSE LET row == [id |-> NewId(M), user_id |-> userId,
                     healthkit_uuid |-> metric.healthkit_uuid,
                     metric_type |-> metric.metric_type, value |-> metric.value]
         IN  Returned(TRUE, "", FALSE, M \cup {row}, {})

insertHealthMetric(M, userId, metric, fault) ==
    IF fault = "connect" THEN Threw(M, {})
    ELSE IF fault = "rollback" THEN Threw(M, {})
    ELSE IF fault = "query" THEN Returned(FALSE, ConnectionLost, FALSE, M, {})
    ELSE IF metric.value = NULL
         THEN Returned(FALSE, NotNullViolation, FALSE, M, {})
    ELSE IF Conflict(M, metric.healthkit_uuid)
         THEN Returned(FALSE, DuplicateMetric, FALSE, M, {})
    ELSE LET row == [id |-> NewId(M), user_id |-> userId,
                     healthkit_uuid |-> metric.healthkit_uuid,
                     metric_type |-> metric.metric_type, value |-> metric.value]
         IN  Returned(TRUE, "", FALSE, M \cup {row}, {})

\* A DO UPDATE SET that takes the move ring only from the new submission
DoUpdateSetMove(existing, excluded) ==
    [f \in DOMAIN existing |->
        IF f \in {"move_goal_kcal", "move_actual_kcal", "move_percent"}
        THEN excluded[f] ELSE existing[f]]

\* ON CONFLICT (user_id, date) DO UPDATE SET <ring field> = EXCLUDED.<ring field>
\* for each of the nine: the row on file with the ring fields of the row
\* proposed for insertion
DoUpdateSet(existing, excluded) ==
    [f \in DOMAIN existing |->
        IF f \in RingFields THEN excluded[f] ELSE existing[f]]

upsertActivityRing(A, userId, ring, fault) ==
    IF fault = "connect" THEN Threw(A, {})
    ELSE IF fault = "rollback" THEN Threw(A, {})
    ELSE IF fault = "query" THEN Returned(FALSE, ConnectionLost, FALSE, A, {})
    ELSE IF \E f \in RingFields : ring[f] = NULL
         THEN Returned(FALSE, NotNullViolation, FALSE, A, {})
    ELSE LET old == { a \in A : a.user_id = userId /\ a.date = ring.date }
             wasInserted == old = {}
             proposed == [f \in RingFields \cup {"id", "user_id", "date"} |->
                            CASE f = "id" -> NewId(A)
                              [] f = "user_id" -> userId
                              [] OTHER -> ring[f]]
             row == IF wasInserted THEN proposed
                    ELSE DoUpdateSet(CHOOSE a \in old : TRUE, proposed)
         IN  Returned(TRUE, "", ~wasInserted, (A \ old) \cup {row}, {})

\* An ON CONFLICT (user_id, data_type) DO NOTHING
DoNothing(existing, excluded) == existing

\* ON CONFLICT (user_id, data_type) DO UPDATE SET anchor_data =
\* EXCLUDED.anchor_data: the row on file with the payload of the row proposed
\* for insertion
DoUpdateSetAnchor(existing, excluded) ==
    [existing EXCEPT !.anchor_data = excluded.anchor_data]

\* An upsert whose RETURNING tells nothing of xmax: every success is reported
\* as an insert
upsertSyncAnchorAlwaysInserted(S, userId, anchor, fault) ==
    IF fault = "connect" THEN Threw(S, {})
    ELSE IF fault = "rollback" THEN Threw(S, {})
    ELSE IF fault = "query" THEN Returned(FALSE, ConnectionLost, FALSE, S, {})
    ELSE IF anchor.anchor_data = NULL
         THEN Returned(FALSE, NotNullViolation, FALSE, S, {})
    ELSE LET old == { a \in S : a.user_id = userId /\ a.data_type = anchor.data_type }
             proposed == [id |-> NewId(S), user_id |-> userId,
                          data_type |-> anchor.data_type,
                          anchor_data |-> anchor.anchor_data]
             row == IF old = {} THEN proposed
                    ELSE DoUpdateSetAnchor(CHOOSE a \in old : TRUE, proposed)
         IN  Returned(TRUE, "", FALSE, (S \ old) \cup {row}, {})

\* INSERT ... ON CONFLICT (user_id, data_type) DO UPDATE ... RETURNING id,
\* (xmax = 0) AS inserted; updated: !wasInserted
upsertSyncAnchor(S, userId, anchor, fault) ==
    IF fault = "connect" THEN Threw(S, {})
    ELSE IF fault = "rollback" THEN Threw(S, {})
    ELSE IF fault = "query" THEN Returned(FALSE, ConnectionLost, FALSE, S, {})
    ELSE IF anchor.anchor_data = NULL
         THEN Returned(FALSE, NotNullViolation, FALSE, S, {})
    ELSE LET old == { a \in S : a.user_id = userId /\ a.data_type = anchor.data_type }
             wasInserted == old = {}
             proposed == [id |-> NewId(S), user_id |-> userId,
                          data_type |-> anchor.data_type,
                          anchor_data |-> anchor.anchor_data]
             row == IF wasInserted THEN proposed
                    ELSE DoUpdateSetAnchor(CHOOSE a \in old : TRUE, proposed)
         IN  Returned(TRUE, "", ~wasInserted, (S \ old) \cup {row}, {})

----------------------------------------------------------------------------
(* Controllers *)

\* The tables as one value
Db == [workouts |-> workouts, workout_routes |-> workout_routes,
       health_metrics |-> health_metrics, activity_rings |-> activity_rings,
       sync_anchors |-> sync_anchors]

\* The service a controller calls for one record of its list
CallService(e, db, userId, rec, fault) ==
    CASE e = "workouts" ->
           LET r == insertWorkout(db.workouts, db.workout_routes, userId, rec, fault)
           IN  [r EXCEPT !.table = [db EXCEPT !.workouts = r.table,
                                              !.workout_routes = r.routes]]
      [] e = "health-metrics" ->
           LET r == insertHealthMetric(db.health_metrics, userId, rec, fault)
           IN  [r EXCEPT !.table = [db EXCEPT !.health_metrics = r.table]]
      [] e = "activity-rings" ->
           LET r == upsertActivityRing(db.activity_rings, userId, rec, fault)
           IN  [r EXCEPT !.table = [db EXCEPT !.activity_rings = r.table]]
      [] e = "anchors" ->
           LET r == upsertSyncAnchor(db.sync_anchors, userId, rec, fault)
           IN  [r EXCEPT !.table = [db EXCEPT !.sync_anchors = r.table]]

\* The key a controller reports a failed record under
ErrorKey(e, rec) ==
    CASE e = "workouts" -> [healthkit_uuid |-> rec.healthkit_uuid]
      [] e = "health-metrics" -> [healthkit_uuid |-> rec.healthkit_uuid]
      [] e = "activity-rings" -> [date |-> rec.date]
      [] e = "anchors" -> [data_type |-> rec.data_type]

\* A controller that knows no duplicate message
DuplicateErrorNone(e) == "-"

\* The message a controller takes for a skipped duplicate
DuplicateError(e) ==
    CASE e = "workouts" -> DuplicateWorkout
      [] e = "health-metrics" -> DuplicateMetric
      [] OTHER -> "-"

AppendOnly(e) == e \in {"workouts", "health-metrics"}

\* The counters of a controller while it walks its list
NoTally(db) ==
    [db |-> db, thrown |-> FALSE, synced |-> 0, skipped |-> 0, updated |-> 0,
     errors |-> << >>, outcomes |-> << >>]

\* A controller that counts a duplicate as skipped and lists it as an error
\* as well
TallyDuplicateTwice(e, acc, rec, r) ==
    IF r.thrown
      THEN [acc EXCEPT !.thrown = TRUE, !.db = r.table]
    ELSE IF r.success /\ AppendOnly(e)
      THEN [acc EXCEPT !.db = r.table, !.synced = @ + 1,
                       !.outcomes = Append(@, "synced")]
    ELSE IF r.success /\ r.updated
      THEN [acc EXCEPT !.db = r.table, !.updated = @ + 1,
                       !.outcomes = Append(@, "updated")]
    ELSE IF r.success
      THEN [acc EXCEPT !.db = r.table, !.synced = @ + 1,
                       !.outcomes = Append(@, "synced")]
    ELSE IF AppendOnly(e) /\ r.error = DuplicateError(e)
      THEN [acc EXCEPT !.db = r.table, !.skipped = @ + 1,
                       !.errors = Append(@, [key |-> ErrorKey(e, rec), error |-> r.error]),
                       !.outcomes = Append(@, "skipped")]
    ELSE [acc EXCEPT !.db = r.table,
                     !.errors = Append(@, [key |-> ErrorKey(e, rec), error |-> r.error]),
                     !.outcomes = Append(@, "error")]

\* if (result.success) ... else if (result.error === "Duplicate ...") ... else
Tally(e, acc, rec, r) ==
    IF r.thrown
      THEN [acc EXCEPT !.thrown = TRUE, !.db = r.table]
    ELSE IF r.success /\ AppendOnly(e)
      THEN [acc EXCEPT !.db = r.table, !.synced = @ + 1,
                       !.outcomes = Append(@, "synced")]
    ELSE IF r.success /\ r.updated
      THEN [acc EXCEPT !.db = r.table, !.updated = @ + 1,
                       !.outcomes = Append(@, "updated")]
    ELSE IF r.success
      THEN [acc EXCEPT !.db = r.table, !.synced = @ + 1,
                       !.outcomes = Append(@, "synced")]
    ELSE IF AppendOnly(e) /\ r.error = DuplicateError(e)
      THEN [acc EXCEPT !.db = r.table, !.skipped = @ + 1,
                       !.outcomes = Append(@, "skipped")]
    ELSE [acc EXCEPT !.db = r.table,
                     !.errors = Append(@, [key |-> ErrorKey(e, rec), error |-> r.error]),
                     !.outcomes = Append(@, "error")]

\* for (const record of list) { const result = await service(pool, user_id, record); ... }
RECURSIVE ForEach(_, _, _, _, _, _)
ForEach(e, userId, list, faults, i, acc) ==
    IF i > Len(list) \/ acc.thrown THEN acc
    ELSE ForEach(e, userId, list, faults, i + 1,
                 Tally(e, acc, list[i], CallService(e, acc.db, userId, list[i], faults[i])))

\* Responses.  body names the shape of the JSON sent: "counts" carries
\* synced, skipped or updated, and errors; "error" carries error and message.
NoRes ==
    [status |-> 0, body |-> "none", success |-> FALSE, synced |-> 0, skipped |-> 0,
     updated |-> 0, errors |-> << >>, outcomes |-> << >>]

BadRequest == [NoRes EXCEPT !.status = 400, !.body = "error"]

InternalServerError(acc) ==
    [NoRes EXCEPT !.status = 500, !.body = "error", !.outcomes = acc.outcomes]

Counts(status, ok, acc) ==
    [status |-> status, body |-> "counts", success |-> ok, synced |-> acc.synced,
     skipped |-> acc.skipped, updated |-> acc.updated, errors |-> acc.errors,
     outcomes |-> acc.outcomes]

\* if (errors.length === list.length) 500; if (errors.length > 0) 207; else 200
StatusOf(acc, list) ==
    IF Len(acc.errors) = Len(list) THEN Counts(500, FALSE, acc)
    ELSE IF Len(acc.errors) > 0 THEN Counts(207, TRUE, acc)
    ELSE Counts(200, TRUE, acc)

\* A validation that looks at the list only
ValidationOfList(body) == Truthy(body.list) /\ IsArray(body.list)

\* if (!user_id || !list || !Array.isArray(list)) 400
Validation(body) ==
    body.user_id # NoUser /\ Truthy(body.list) /\ IsArray(body.list)

\* One controller run: the response sent and the tables it leaves
Controller(e, db, body, faults) ==
    IF ~Validation(body) THEN [res |-> BadRequest, db |-> db]
    ELSE LET acc == ForEach(e, body.user_id, body.list.v, faults, 1, NoTally(db))
         IN  IF acc.thrown
             THEN [res |-> InternalServerError(acc), db |-> acc.db]
             ELSE [res |-> StatusOf(acc, body.list.v), db |-> acc.db]

syncWorkouts(db, body, faults) == Controller("workouts", db, body, faults)
syncHealthMetrics(db, body, faults) == Controller("health-metrics", db, body, faults)
syncActivityRings(db, body, faults) == Controller("activity-rings", db, body, faults)
updateSyncAnchors(db, body, faults) == Controller("anchors", db, body, faults)

----------------------------------------------------------------------------
(* Reads *)

\* Path parameters.  A workout id is a UUID that is or is not on file, or text
\* the UUID column does not parse; likewise an owner.  A date is one of Dates,
\* text of the shape YYYY-MM-DD that is no calendar date, or other text.
NotAUuid == "not-a-uuid"
NotADate == "2025-02-30"
NotADateShape == "tomorrow"

IdParams == (1..(Cardinality(Uuids) + 1)) \cup {0}
OwnerParams == Users \cup {NotAUuid}
DateParams == Dates \cup {NotADate, NotADateShape}

\* 0 stands for text that is no UUID
IsUuid(id) == id # 0

\* /^\d{4}-\d{2}-\d{2}$/.test(date)
dateRegex(date) == date # NotADateShape

ReadFaults == {"none", "query"}

\* What a read service hands to its controller: the row found, nothing, or an
\* exception (pool.query rejected: the connection is lost, or the server
\* could not read a parameter as the column's type)
Found(row) == [thrown |-> FALSE, found |-> TRUE, row |-> row]
NotFound == [thrown |-> FALSE, found |-> FALSE, row |-> [none |-> TRUE]]
QueryRejected == [thrown |-> TRUE, found |-> FALSE, row |-> [none |-> TRUE]]

\* result.rows.length === 0 ? nothing : result.rows[0]
FirstRow(rows) == IF rows = {} THEN NotFound ELSE Found(CHOOSE r \in rows : TRUE)

getSyncAnchor(S, userId, dataType, fault) ==
    IF fault = "query" \/ userId = NotAUuid THEN QueryRejected
    ELSE FirstRow({ a \in S : a.user_id = userId /\ a.data_type = dataType })

getWorkoutById(W, workoutId, fault) ==
    IF fault = "query" \/ ~IsUuid(workoutId) THEN QueryRejected
    ELSE FirstRow({ w \in W : w.id = workoutId })

getWorkoutRoute(R, workoutId, fault) ==
    IF fault = "query" \/ ~IsUuid(workoutId) THEN QueryRejected
    ELSE FirstRow({ r \in R : r.workout_id = workoutId })

getActivityRingsByDate(A, userId, date, fault) ==
    IF fault = "query" \/ date = NotADate THEN QueryRejected
    ELSE FirstRow({ a \in A : a.user_id = userId /\ a.date = date })

\* The response to a GET, with the request it answers
Answer(route, params, fault, status, item) ==
    [route |-> route, params |-> params, fault |-> fault, status |-> status,
     item |-> item]

\* 500 for a failed read, 404 for nothing found, 200 with the row
ReadStatus(r) == IF r.thrown THEN 500 ELSE IF ~r.found THEN 404 ELSE 200

getAnchor(S, userId, dataType, fault) ==
    LET result == getSyncAnchor(S, userId, dataType, fault)
    IN  Answer("getAnchor", [userId |-> userId, dataType |-> dataType], fault,
               ReadStatus(result), result.row)

getWorkoutDetails(W, id, fault) ==
    LET workout == getWorkoutById(W, id, fault)
    IN  Answer("getWorkoutDetails", [id |-> id], fault,
               ReadStatus(workout), workout.row)

getWorkoutRouteData(R, id, fault) ==
    LET route == getWorkoutRoute(R, id, fault)
    IN  Answer("getWorkoutRouteData", [id |-> id], fault,
               ReadStatus(route), route.row)

getActivityRingsByDateHandler(A, userId, date, fault) ==
    IF ~dateRegex(date)
    THEN Answer("getActivityRingsByDate", [userId |-> userId, date |-> date],
                fault, 400, [none |-> TRUE])
    ELSE LET activityRings == getActivityRingsByDate(A, userId, date, fault)
         IN  Answer("getActivityRingsByDate", [userId |-> userId, date |-> date],
                    fault, ReadStatus(activityRings), activityRings.row)

----------------------------------------------------------------------------
(* Dashboard: GET /api/dashboard/recent *)

\* The workouts of the model carry no start date, duration, distance or
\* energy.  The sample with each identifier is taken to have these: the
\* days between its start and the request, its duration in seconds, and its
\* two nullable totals, each the set of its values (empty when NULL).
WorkoutSample(healthkit_uuid) ==
    IF healthkit_uuid = "uuid-1"
    THEN [started_days_ago |-> 3, duration_seconds |-> 1800,
          total_distance_meters |-> {5000}, total_energy_burned_kcal |-> {300}]
    ELSE [started_days_ago |-> 30, duration_seconds |-> 3600,
          total_distance_meters |-> {}, total_energy_burned_kcal |-> {}]

\* The days between a ring's date and CURRENT_DATE at the request
RingDaysAgo(date) == IF date = "2025-01-16" THEN 6 ELSE 7

\* req.query.days and req.query.user_id.  A text is the sequence of its
\* characters; Number.parseInt reads a parameter that is absent as the text
\* of undefined.
DaysAbsent == << "u", "n", "d", "e", "f", "i", "n", "e", "d" >>
QueryDays ==
    { DaysAbsent, << "0" >>, << "-", "5" >>, << "1" >>, << "7" >>,
      << "9", "0" >>, << "9", "1" >>, << "a", "b" >> }
UserAbsent == ""
QueryUsers == Users \cup {UserAbsent}
DEFAULT_USER_ID == "00000000-0000-0000-0000-000000000001"

DigitOf(c) ==
    CASE c = "0" -> 0 [] c = "1" -> 1 [] c = "2" -> 2 [] c = "3" -> 3
      [] c = "4" -> 4 [] c = "5" -> 5 [] c = "6" -> 6 [] c = "7" -> 7
      [] c = "8" -> 8 [] c = "9" -> 9 [] OTHER -> 0 - 1

\* The digits of s from position i on, up to the first character that is
\* not one: NaN when there is none
RECURSIVE ParseDigits(_, _, _, _)
ParseDigits(s, i, acc, any) ==
    IF i > Len(s) \/ DigitOf(s[i]) < 0
    THEN [nan |-> ~any, n |-> acc]
    ELSE ParseDigits(s, i + 1, acc * 10 + DigitOf(s[i]), TRUE)

\* Number.parseInt(s, 10): an optional sign, then digits
parseInt(s) ==
    IF Len(s) > 0 /\ s[1] = "-"
    THEN LET p == ParseDigits(s, 2, 0, FALSE)
         IN  [nan |-> p.nan, n |-> 0 - p.n]
    ELSE IF Len(s) > 0 /\ s[1] = "+"
         THEN ParseDigits(s, 2, 0, FALSE)
    ELSE ParseDigits(s, 1, 0, FALSE)

DefaultDays == 7
MinDays == 1
MaxDays == 90

\* Number.parseInt(req.query.days, 10) || 7: NaN and 0 are falsy
DaysOf(text) ==
    LET parsed == parseInt(text)
    IN  IF parsed.nan \/ parsed.n = 0 THEN DefaultDays ELSE parsed.n

\* req.query.user_id || DEFAULT_USER_ID
UserOf(text) == IF text = UserAbsent THEN DEFAULT_USER_ID ELSE text

\* WHERE user_id = $1 AND start_date >= NOW() - INTERVAL '1 day' * $2
RecentRows(W, userId, days) ==
    { w \in W : /\ w.user_id = userId
                /\ WorkoutSample(w.healthkit_uuid).started_days_ago <= days }

\* ORDER BY start_date DESC
RECURSIVE NewestFirst(_)
NewestFirst(rows) ==
    IF rows = {} THEN << >>
    ELSE LET newest ==
               CHOOSE w \in rows :
                  \A v \in rows :
                     WorkoutSample(w.healthkit_uuid).started_days_ago
                        <= WorkoutSample(v.healthkit_uuid).started_days_ago
         IN  << newest >> \o NewestFirst(rows \ {newest})

getRecentWorkouts(W, R, userId, days) ==
    LET summaryOf(w) ==
          [id |-> w.id, workout_type |-> w.workout_type,
           duration_seconds |-> WorkoutSample(w.healthkit_uuid).duration_seconds,
           has_route |-> \E wr \in R : wr.workout_id = w.id]
        rows == NewestFirst(RecentRows(W, userId, days))
    IN  [i \in 1..Len(rows) |-> summaryOf(rows[i])]

\* WHERE user_id = $1 AND date >= CURRENT_DATE - INTERVAL '1 day' * $2
getRecentActivityRings(A, userId, days) ==
    { a \in A : a.user_id = userId /\ RingDaysAgo(a.date) <= days }

\* SUM of column over rows, NULLs left out; 0 stands for the NULL that
\* COALESCE(..., 0) turns to 0
\* The values a row has in a column: none when it is NULL
ColumnOf(w, column) ==
    IF column = "duration_seconds"
    THEN {WorkoutSample(w.healthkit_uuid).duration_seconds}
    ELSE WorkoutSample(w.healthkit_uuid)[column]

RECURSIVE SumOf(_, _)
SumOf(rows, column) ==
    IF rows = {} THEN 0
    ELSE LET w == CHOOSE r \in rows : TRUE
             own == ColumnOf(w, column)
         IN  (IF own = {} THEN 0 ELSE CHOOSE x \in own : TRUE)
                + SumOf(rows \ {w}, column)

\* The summary over every workout of the owner, whatever the window
calculateSummaryStatsAllTime(W, userId, days) ==
    LET rows == { w \in W : w.user_id = userId }
    IN  [total_workouts |-> Cardinality(rows),
         total_distance_km |-> SumOf(rows, "total_distance_meters"),
         total_calories |-> SumOf(rows, "total_energy_burned_kcal"),
         avg_workout_duration_minutes |->
             IF rows = {} THEN 0
             ELSE (SumOf(rows, "duration_seconds") \div Cardinality(rows))
                     \div 60]

\* COUNT(*), COALESCE(SUM(total_distance_meters), 0) / 1000.0,
\* COALESCE(SUM(total_energy_burned_kcal), 0) and
\* COALESCE(AVG(duration_seconds), 0) / 60.0.  The distance is held in
\* thousandths of a kilometre; the samples' durations average to whole
\* minutes.
calculateSummaryStats(W, userId, days) ==
    LET rows == RecentRows(W, userId, days)
    IN  [total_workouts |-> Cardinality(rows),
         total_distance_km |-> SumOf(rows, "total_distance_meters"),
         total_calories |-> SumOf(rows, "total_energy_burned_kcal"),
         avg_workout_duration_minutes |->
             IF rows = {} THEN 0
             ELSE (SumOf(rows, "duration_seconds") \div Cardinality(rows))
                     \div 60]

getRecentDashboardData(W, R, A, query, fault) ==
    LET days == DaysOf(query.days)
        userId == UserOf(query.user_id)
    IN  IF days < MinDays \/ days > MaxDays
        THEN Answer("getRecentDashboardData", query, fault, 400,
                    [queried |-> FALSE])
        ELSE IF fault = "query"
        THEN Answer("getRecentDashboardData", query, fault, 500,
                    [queried |-> TRUE])
        ELSE Answer("getRecentDashboardData", query, fault, 200,
                    [queried |-> TRUE, days |-> days, userId |-> userId,
                     workouts |-> getRecentWorkouts(W, R, userId, days),
                     activity_rings |-> getRecentActivityRings(A, userId, days),
                     summary |-> calculateSummaryStats(W, userId, days)])

----------------------------------------------------------------------------
(* The Ingestion Service as a state machine *)

NoReq == [user_id |-> NoUser, list |-> [t |-> "none", v |-> << >>]]

\* The requests of each endpoint
Requests == [e \in Endpoints |-> Bodies(e)]

\* The storage faults met while a list of n records is walked, one per record.
\* At most one record of a request meets a fault.
FaultVectors ==
    [n \in 0..MaxBatch |->
        { f \in [1..n -> FaultKinds] :
            \A i \in 1..n : \A j \in 1..n :
                (i # j /\ f[i] # "none") => f[j] = "none" }]

FaultsFor(body) == FaultVectors[Len(body.list.v)]

\* No GET answered
NoGot == [route |-> "none", status |-> 0]

\* The anchor payloads put so far: none
NeverPut == [k \in (Users \cup {NoUser}) \X DataTypes |-> NULL]

\* The payloads put last once a controller has walked its list: each record
\* the answer counts as synced or updated is a put
RECURSIVE Puts(_, _, _, _, _)
Puts(log, userId, list, outcomes, i) ==
    IF i > Len(outcomes) THEN log
    ELSE Puts(IF outcomes[i] \in {"synced", "updated"}
              THEN [log EXCEPT ![<<userId, list[i].data_type>>] = list[i].anchor_data]
              ELSE log,
              userId, list, outcomes, i + 1)

\* ---- middleware/auth: requireApiKey --------------------------------------
\* req.headers["x-api-key"]: undefined when the request carries no such
\* header, else the string it carries, which may be empty.
NoKeyHeader == "undefined"
API_KEY == "secret"
KeyHeaders == {NoKeyHeader, "", "other-key", API_KEY}

\* !providedKey
FalsyKey(providedKey) == providedKey \in {NoKeyHeader, ""}

\* The status requireApiKey answers, CallsNext when it answers nothing and
\* calls next().  API_KEY is set: index.ts exits at start-up when it is not.
CallsNext == 0
Unauthorized == 401
Forbidden == 403

ForbidNothing(providedKey) ==
    IF FalsyKey(providedKey) THEN Unauthorized ELSE CallsNext

requireApiKey(providedKey) ==
    IF FalsyKey(providedKey) THEN Unauthorized
    ELSE IF providedKey # API_KEY THEN Forbidden
    ELSE CallsNext

\* Every router of the service starts with router.use(requireApiKey);
\* app.get("/api/health") is mounted on the application and has none.
GuardedRoutes == {"sync", "getAnchor", "getWorkoutDetails",
                  "getWorkoutRouteData", "getActivityRingsByDate",
                  "getRecentDashboardData"}
HealthRoute == "health"
NoGate == [route |-> "none", key |-> NoKeyHeader, status |-> CallsNext]
Decided(route, providedKey) ==
    [route |-> route, key |-> providedKey,
     status |-> requireApiKey(providedKey)]

\* app.get("/api/health"): 200 when SELECT NOW() answers, 503 when it throws
healthHandler(providedKey, connected) ==
    [route |-> HealthRoute, key |-> providedKey,
     status |-> IF connected THEN 200 ELSE 503]

\* Two requests are handled at once.  Each walks its list and has at most one
\* transaction open: pool.connect(), BEGIN, one INSERT (two for a workout
\* with a route), COMMIT or ROLLBACK, client.release().
Writers == {"A", "B"}

\* Two requests of two owners: request A is of the owner of every other
\* request, request B of a second one
OtherUsers == {"user-2"}
OwnerOf(t) == IF t = "A" THEN Users ELSE OtherUsers

EmptyDb == [workouts |-> {}, workout_routes |-> {}, health_metrics |-> {},
            activity_rings |-> {}, sync_anchors |-> {}]

DbMinus(a, b) == [k \in DOMAIN a |-> a[k] \ b[k]]
DbUnion(a, b) == [k \in DOMAIN a |-> a[k] \cup b[k]]

NoTx == [pc |-> "idle", userId |-> NoUser, rec |-> {}, added |-> EmptyDb,
         removed |-> EmptyDb, success |-> FALSE, updated |-> FALSE,
         thrown |-> FALSE, fault |-> "none", error |-> "", onFile |-> FALSE]

\* The unique constraint an INSERT of record rec arbitrates on:
\* healthkit_uuid, (user_id, date), (user_id, data_type)
TxKey(e, userId, rec) ==
    CASE e = "activity-rings" -> <<userId, rec.date>>
      [] e = "anchors" -> <<userId, rec.data_type>>
      [] OTHER -> <<rec.healthkit_uuid>>

MutableKeys == Users \X (Dates \cup DataTypes)

InitTx ==
    /\ tx = [t \in Writers |-> NoTx]
    /\ pool = {}
    /\ lastCommit = [k \in MutableKeys |-> {}]

InitServer ==
    /\ endpoint \in Endpoints
    /\ workouts = {}
    /\ workout_routes = {}
    /\ health_metrics = {}
    /\ activity_rings = {}
    /\ sync_anchors = {}
    /\ req = NoReq
    /\ res = NoRes
    /\ got = NoGot
    /\ gate = NoGate
    /\ lastPut = NeverPut
    /\ InitTx

\* express.json() hands the parsed body of a POST to the controller.  The
\* controller acts on it once, and again each time the producer posts the
\* same body anew before posting another.
Receive ==
    /\ req = NoReq
    /\ got.route = "none"
    /\ gate.route = "none"
    /\ \E providedKey \in KeyHeaders :
          /\ requireApiKey(providedKey) = CallsNext
          /\ gate' = Decided("sync", providedKey)
    /\ \E body \in Requests[endpoint] :
        /\ req' = body
        /\ res' = NoRes
        /\ got' = NoGot
        /\ UNCHANGED <<endpoint, workouts, workout_routes, health_metrics,
                       activity_rings, sync_anchors, lastPut>>
        /\ UNCHANGED txVars
        /\ UNCHANGED <<clientVars, hkVars>>

Respond(out) ==
    /\ res' = out.res
    /\ workouts' = out.db.workouts
    /\ workout_routes' = out.db.workout_routes
    /\ health_metrics' = out.db.health_metrics
    /\ activity_rings' = out.db.activity_rings
    /\ sync_anchors' = out.db.sync_anchors
    /\ lastPut' = IF endpoint = "anchors" /\ IsArray(req.list)
                  THEN Puts(lastPut, req.user_id, req.list.v, out.res.outcomes, 1)
                  ELSE lastPut
    /\ got' = NoGot
    /\ UNCHANGED <<endpoint, req, gate>>
    /\ UNCHANGED txVars
    /\ UNCHANGED <<clientVars, hkVars>>

PostWorkouts ==
    /\ endpoint = "workouts" /\ req # NoReq
    /\ \E faults \in FaultsFor(req) : Respond(syncWorkouts(Db, req, faults))

PostHealthMetrics ==
    /\ endpoint = "health-metrics" /\ req # NoReq
    /\ \E faults \in FaultsFor(req) : Respond(syncHealthMetrics(Db, req, faults))

PostActivityRings ==
    /\ endpoint = "activity-rings" /\ req # NoReq
    /\ \E faults \in FaultsFor(req) : Respond(syncActivityRings(Db, req, faults))

PostAnchors ==
    /\ endpoint = "anchors" /\ req # NoReq
    /\ \E faults \in FaultsFor(req) : Respond(updateSyncAnchors(Db, req, faults))

\* The exchange is over, POST or GET: the handler keeps nothing of it (the
\* service is stateless between requests)
Finish ==
    /\ res # NoRes \/ got.route # "none" \/ gate.status # CallsNext
    /\ gate' = NoGate
    /\ req' = NoReq
    /\ res' = NoRes
    /\ got' = NoGot
    /\ UNCHANGED <<endpoint, workouts, workout_routes, health_metrics,
                   activity_rings, sync_anchors, lastPut>>
    /\ UNCHANGED txVars
    /\ UNCHANGED <<clientVars, hkVars>>

\* requireApiKey answers 401 or 403 and returns without calling next(): the
\* route's handler is not entered
Refuse ==
    /\ req = NoReq
    /\ got.route = "none"
    /\ gate.route = "none"
    /\ \E route \in GuardedRoutes, providedKey \in KeyHeaders :
        /\ requireApiKey(providedKey) # CallsNext
        /\ gate' = Decided(route, providedKey)
        /\ UNCHANGED <<endpoint, workouts, workout_routes, health_metrics,
                       activity_rings, sync_anchors, req, res, got, lastPut>>
        /\ UNCHANGED txVars
        /\ UNCHANGED <<clientVars, hkVars>>

\* GET /api/health is answered whatever key header the request carries
Health ==
    /\ req = NoReq
    /\ got.route = "none"
    /\ gate.route = "none"
    /\ \E providedKey \in KeyHeaders, connected \in BOOLEAN :
        /\ gate' = healthHandler(providedKey, connected)
        /\ UNCHANGED <<endpoint, workouts, workout_routes, health_metrics,
                       activity_rings, sync_anchors, req, res, got, lastPut>>
        /\ UNCHANGED txVars
        /\ UNCHANGED <<clientVars, hkVars>>

\* The producer reads back an anchor it has just put: the GET follows the
\* answer to its POST, with the owner and a data type of that request
ReadBack(answer) ==
    /\ endpoint = "anchors"
    /\ res # NoRes
    /\ IsArray(req.list)
    /\ answer.fault = "none"
    /\ answer.params.userId = req.user_id
    /\ \E i \in 1..Len(req.list.v) :
         req.list.v[i].data_type = answer.params.dataType

\* A GET is answered, between two POST exchanges or as a read back.  Reads
\* change nothing on file.
Read(answer) ==
    /\ req = NoReq \/ ReadBack(answer)
    /\ got.route = "none"
    /\ gate.status = CallsNext
    /\ \E providedKey \in KeyHeaders :
          /\ requireApiKey(providedKey) = CallsNext
          /\ gate' = Decided(answer.route, providedKey)
    /\ got' = answer
    /\ UNCHANGED <<endpoint, workouts, workout_routes, health_metrics,
                   activity_rings, sync_anchors, req, res, lastPut>>
    /\ UNCHANGED txVars
    /\ UNCHANGED <<clientVars, hkVars>>

GetAnchor ==
    /\ endpoint = "anchors"
    /\ \E userId \in OwnerParams, dataType \in DataTypes, fault \in ReadFaults :
         Read(getAnchor(sync_anchors, userId, dataType, fault))

GetWorkoutDetails ==
    /\ endpoint = "workouts"
    /\ \E id \in IdParams, fault \in ReadFaults :
         Read(getWorkoutDetails(workouts, id, fault))

GetWorkoutRouteData ==
    /\ endpoint = "workouts"
    /\ \E id \in IdParams, fault \in ReadFaults :
         Read(getWorkoutRouteData(workout_routes, id, fault))

GetActivityRingsByDate ==
    /\ endpoint = "activity-rings"
    /\ \E userId \in Users, date \in DateParams, fault \in ReadFaults :
         Read(getActivityRingsByDateHandler(activity_rings, userId, date, fault))

GetRecentDashboardData ==
    /\ endpoint \in {"workouts", "activity-rings"}
    /\ \E query \in [days : QueryDays, user_id : QueryUsers],
          fault \in ReadFaults :
         Read(getRecentDashboardData(workouts, workout_routes, activity_rings,
                                     query, fault))

NextDashboard ==
    \/ Receive
    \/ PostWorkouts
    \/ PostActivityRings
    \/ Finish
    \/ GetRecentDashboardData

----------------------------------------------------------------------------
(* Storage transactions of concurrent requests *)

\* A table with no unique constraint on the key: no INSERT ever waits
NoUniqueConstraint(t, k) == FALSE

\* Another writer has written a row under the key and has not committed or
\* rolled back: the INSERT waits for the end of that transaction
Locked(t, k) ==
    \E o \in Writers \ {t} :
       /\ tx[o].pc = "written"
       /\ \E r \in tx[o].rec : TxKey(endpoint, tx[o].userId, r) = k

\* The tables as the statement of writer t finds them: what is committed,
\* and the rows of other transactions in flight (which take their ids)
View(t) ==
    LET others == Writers \ {t}
        gone == [k \in DOMAIN Db |-> UNION { tx[o].removed[k] : o \in others }]
        come == [k \in DOMAIN Db |-> UNION { tx[o].added[k] : o \in others }]
    IN  DbUnion(DbMinus(Db, gone), come)

TxFrame ==
    /\ UNCHANGED <<endpoint, req, res, got, gate, lastPut>>
    /\ UNCHANGED <<clientVars, hkVars>>

\* const client = await pool.connect(); ... await client.query("BEGIN").
\* When pool.connect() rejects the function is left with no client acquired.
TxConnectAs(t, owners) ==
    /\ tx[t].pc = "idle"
    /\ \E userId \in owners, rec \in RecordsOf(endpoint), connected \in BOOLEAN :
         IF connected
         THEN /\ tx' = [tx EXCEPT ![t] =
                          [NoTx EXCEPT !.pc = "begun",
                                       !.userId = userId,
                                       !.rec = {rec},
                                       !.onFile = /\ AppendOnly(endpoint)
                                                  /\ Conflict(IF endpoint = "workouts"
                                                              THEN workouts
                                                              ELSE health_metrics,
                                                              rec.healthkit_uuid)]]
              /\ pool' = pool \cup {t}
         ELSE UNCHANGED <<tx, pool>>
    /\ UNCHANGED <<workouts, workout_routes, health_metrics, activity_rings,
                   sync_anchors, lastCommit>>
    /\ TxFrame

TxConnect(t) == TxConnectAs(t, Users)

\* The INSERT ... ON CONFLICT of the service (and the route INSERT): rows are
\* written, or no row is returned (a duplicate), or the statement is rejected
TxStatement(t) ==
    /\ tx[t].pc = "begun"
    /\ \E rec \in tx[t].rec, fault \in {"none", "query"} :
         /\ ~Locked(t, TxKey(endpoint, tx[t].userId, rec))
         /\ LET out == CallService(endpoint, View(t), tx[t].userId, rec, fault)
            IN  tx' = [tx EXCEPT ![t] =
                         IF out.success
                         THEN [@ EXCEPT !.pc = "written",
                                        !.added = DbMinus(out.table, View(t)),
                                        !.removed = DbMinus(View(t), out.table),
                                        !.updated = out.updated]
                         ELSE IF out.error \in {DuplicateWorkout, DuplicateMetric}
                         THEN [@ EXCEPT !.pc = "duplicate", !.error = out.error]
                         ELSE [@ EXCEPT !.pc = "caught", !.fault = fault,
                                        !.error = out.error]]
    /\ UNCHANGED <<workouts, workout_routes, health_metrics, activity_rings,
                   sync_anchors, pool, lastCommit>>
    /\ TxFrame

\* await client.query("COMMIT"); return { success: true, ... }
TxCommit(t) ==
    /\ tx[t].pc = "written"
    /\ LET after == DbUnion(DbMinus(Db, tx[t].removed), tx[t].added)
       IN  /\ workouts' = after.workouts
           /\ workout_routes' = after.workout_routes
           /\ health_metrics' = after.health_metrics
           /\ activity_rings' = after.activity_rings
           /\ sync_anchors' = after.sync_anchors
    /\ lastCommit' =
         IF endpoint \in {"activity-rings", "anchors"}
         THEN [k \in MutableKeys |->
                 IF \E r \in tx[t].rec : TxKey(endpoint, tx[t].userId, r) = k
                 THEN tx[t].rec ELSE lastCommit[k]]
         ELSE lastCommit
    /\ tx' = [tx EXCEPT ![t] = [@ EXCEPT !.pc = "finally", !.success = TRUE,
                                         !.added = EmptyDb, !.removed = EmptyDb]]
    /\ UNCHANGED pool
    /\ TxFrame

\* await client.query("ROLLBACK") in the duplicate branch of the try block or
\* in the catch block.  A ROLLBACK that is rejected in the try block is
\* caught; one that is rejected in the catch block leaves the function as an
\* exception.  Either way the rows written are gone with the transaction.
TxRollback(t) ==
    /\ tx[t].pc \in {"duplicate", "caught"}
    /\ \E done \in BOOLEAN :
         tx' = [tx EXCEPT ![t] =
                  IF done THEN [@ EXCEPT !.pc = "finally"]
                  ELSE IF tx[t].pc = "duplicate"
                  THEN [@ EXCEPT !.pc = "caught", !.fault = "rollback",
                                 !.error = ConnectionLost]
                  ELSE [@ EXCEPT !.pc = "finally", !.thrown = TRUE,
                                 !.fault = "rollback"]]
    /\ UNCHANGED <<workouts, workout_routes, health_metrics, activity_rings,
                   sync_anchors, pool, lastCommit>>
    /\ TxFrame

\* A function that hands its client back on the paths that return a result
\* and not on the path an exception takes
ReleaseUnlessThrown(t) == IF tx[t].thrown THEN pool ELSE pool \ {t}

\* finally { client.release() }
Release(t) == pool \ {t}

\* The function is left and its result handed to the controller, which goes
\* on with the next record of its list
TxRelease(t) ==
    /\ tx[t].pc = "finally"
    /\ pool' = Release(t)
    /\ tx' = [tx EXCEPT ![t] = NoTx]
    /\ UNCHANGED <<workouts, workout_routes, health_metrics, activity_rings,
                   sync_anchors, lastCommit>>
    /\ TxFrame

NextConcurrent ==
    \/ \E t \in Writers : TxConnect(t)
    \/ \E t \in Writers : TxStatement(t)
    \/ \E t \in Writers : TxCommit(t)
    \/ \E t \in Writers : TxRollback(t)
    \/ \E t \in Writers : TxRelease(t)

NextOwners ==
    \/ \E t \in Writers : TxConnectAs(t, OwnerOf(t))
    \/ \E t \in Writers : TxStatement(t)
    \/ \E t \in Writers : TxCommit(t)
    \/ \E t \in Writers : TxRollback(t)
    \/ \E t \in Writers : TxRelease(t)

----------------------------------------------------------------------------
(* The sync orchestrator (client) *)

AnchoredTypes == {"workouts", "heartRate", "stepCount"}
ActivityRings == "activityRings"
SyncTypes == AnchoredTypes \cup {ActivityRings}

\* The trigger sources: the two buttons of ContentView and the update
\* handler of the HKObserverQuery callbacks of AppDelegate.  The three
\* observer queries share this one handler, which starts a full sync
\* whatever the observed type; one callback is followed at a time.
Observers == {"observer"}
Tasks == {"syncNow", "import"} \cup Observers

NoAnchor == 0                     \* no anchor archived (loadAnchor gives nil)

Idle == [pc |-> "idle", dataType |-> "-", newAnchor |-> NoAnchor]
At(pc, d, a) == [pc |-> pc, dataType |-> d, newAnchor |-> a]

\* What an awaited call hands back: an HTTP exchange (kind "http") or the
\* results handler of a HealthKit query (kind "query")
NoResult ==
    [kind |-> "none", arrived |-> FALSE, statusCode |-> 0, json |-> "-",
     failed |-> FALSE, count |-> 0, newAnchor |-> NoAnchor]

\* What URLSession hands back for one request: no response at all, or a status
\* code with a body that is JSON of the expected shape saying status "ok",
\* JSON of the expected shape, or something else
SuccessCodes == {200, 207}
ErrorCodes == {400, 401, 500}
HttpOutcomes ==
    { [NoResult EXCEPT !.kind = "http", !.arrived = TRUE, !.statusCode = c, !.json = j] :
        c \in SuccessCodes, j \in {"ok", "other", "garbage"} }
    \cup
    { [NoResult EXCEPT !.kind = "http", !.arrived = TRUE, !.statusCode = c, !.json = "other"] :
        c \in ErrorCodes }
    \cup
    { [NoResult EXCEPT !.kind = "http", !.json = "garbage"] }

HttpErrorFrom == 400

\* A client that throws on server errors (5xx) only
makeRequestThrowing5xx(o) ==
    IF ~o.arrived THEN "networkError"
    ELSE IF o.statusCode >= 500 THEN "httpError"
    ELSE IF o.json = "garbage" THEN "decodingError"
    ELSE "decoded"

\* APIClient.makeRequest: the response is decoded, or an APIError is thrown
makeRequest(o) ==
    IF ~o.arrived THEN "networkError"
    ELSE IF o.statusCode >= HttpErrorFrom THEN "httpError"
    ELSE IF o.json = "garbage" THEN "decodingError"
    ELSE "decoded"

\* A probe that takes any decoded answer for a healthy backend
healthCheckAnyAnswer(o) == TRUE

\* APIClient.healthCheck: response.status == "ok"
healthCheck(o) == o.json = "ok"

\* The data type after d in performFullSync and in performHistoricalImport
NextType(t, d) ==
    IF t = "import"
    THEN (CASE d = "workouts" -> ActivityRings
            [] OTHER -> "done")
    ELSE (CASE d = "workouts" -> "heartRate"
            [] d = "heartRate" -> "stepCount"
            [] d = "stepCount" -> ActivityRings
            [] OTHER -> "done")

\* ---- AppDelegate.setupObserver: the update handler of an HKObserverQuery ----
NotCalled == [invoked |-> FALSE, error |-> FALSE, pending |-> FALSE, calls |-> 0]

\* ---- HealthKitService.fetchWorkouts on the workouts HealthKit holds ----
\* Dates are days.  A workout is saved to HealthKit on or after the day it
\* started: one that a watch hands over late starts before the last sync.
Now == 10
LookbackDays == 7
StartDays == {1, 5, 9}
\* lastSyncDate: nil (no date) or the day the last run completed
LastSyncDates == {{}, {4}, {8}}

NoFetch == [asked |-> FALSE, anchor |-> NoAnchor, lastSyncDate |-> {},
            samples |-> {}, newAnchor |-> NoAnchor]

\* lastSyncDate ?? Calendar.current.date(byAdding: .day, value: -7, to: Date())
startDateOf(last) ==
    IF last = {} THEN Now - LookbackDays ELSE CHOOSE day \in last : TRUE

\* HKAnchoredObjectQuery(type:, predicate: predicateForSamples(withStart:
\* startDate, end: nil, options: .strictStartDate), anchor:, limit: none):
\* the samples saved after the anchor that start on or after startDate, and
\* the anchor of the newest sample the store holds
fetchWorkouts(store, startDate, anchor) ==
    [samples |-> { w \in store : w.seq > anchor /\ w.startDay >= startDate },
     newAnchor |-> IF store = {} THEN anchor
                   ELSE Max({ w.seq : w \in store } \cup {anchor})]

\* A workout is saved to HealthKit
HealthKitSaves ==
    /\ Cardinality(healthStore) < MaxStored
    /\ \E day \in StartDays :
          healthStore' = healthStore \cup
              {[seq |-> Cardinality(healthStore) + 1, startDay |-> day]}
    /\ fetched' = NoFetch
    /\ UNCHANGED handler
    /\ UNCHANGED <<serverVars, clientVars>>

\* syncWorkouts up to the result of its query: loadAnchor, the start date,
\* healthKit.fetchWorkouts(from: startDate, anchor: anchor)
FetchWorkouts ==
    /\ \E anchor \in 0..Cardinality(healthStore), last \in LastSyncDates :
          LET result == fetchWorkouts(healthStore, startDateOf(last), anchor)
          IN  fetched' = [asked |-> TRUE, anchor |-> anchor,
                          lastSyncDate |-> last,
                          samples |-> result.samples,
                          newAnchor |-> result.newAnchor]
    /\ UNCHANGED <<healthStore, handler>>
    /\ UNCHANGED <<serverVars, clientVars>>

NextQuery ==
    \/ HealthKitSaves
    \/ FetchWorkouts

InitClient ==
    /\ isSyncing = FALSE
    /\ lastSyncDate = "nil"
    /\ syncError = "nil"
    /\ savedAnchor = [d \in AnchoredTypes |-> NoAnchor]
    /\ task = [t \in Tasks |-> Idle]
    /\ inbox = [t \in Tasks |-> NoResult]
    /\ anchorsAtStart = [d \in AnchoredTypes |-> NoAnchor]
    /\ unsent = [d \in AnchoredTypes |-> "none"]
    /\ healthStore = {}
    /\ fetched = NoFetch
    /\ handler = NotCalled

\* A button is tapped or HealthKit calls an observer: Task { await ... }
Trigger(t) ==
    /\ task[t].pc = "idle"
    /\ task' = [task EXCEPT ![t] = At("queued", "-", NoAnchor)]
    /\ UNCHANGED <<isSyncing, lastSyncDate, syncError, savedAnchor, inbox,
                   anchorsAtStart, unsent>>
    /\ UNCHANGED <<serverVars, hkVars>>

\* A run that starts whether or not another is in progress
GuardOff(busy) == TRUE

\* guard !isSyncing else { return }
Guard(busy) == ~busy

\* The task reaches the main actor: the guard, then the run up to its first
\* await (api.healthCheck() in performFullSync, healthKit.fetchWorkouts in
\* performHistoricalImport)
Begin(t) ==
    /\ task[t].pc = "queued"
    /\ IF Guard(isSyncing)
       THEN /\ isSyncing' = TRUE
            /\ syncError' = "nil"
            /\ anchorsAtStart' = savedAnchor
            /\ task' = [task EXCEPT ![t] =
                          IF t = "import" THEN At("fetch", "workouts", NoAnchor)
                          ELSE At("healthCheck", "-", NoAnchor)]
       ELSE /\ task' = [task EXCEPT ![t] = Idle]
            /\ UNCHANGED <<isSyncing, syncError, anchorsAtStart>>
    /\ UNCHANGED <<lastSyncDate, savedAnchor, inbox, unsent>>
    /\ UNCHANGED <<serverVars, hkVars>>

performFullSync(t) == t # "import" /\ Begin(t)
performHistoricalImport(t) == t = "import" /\ Begin(t)

\* The HTTP exchange a suspended task awaits is over
HttpResponds(t) ==
    /\ task[t].pc \in {"healthCheck", "post"}
    /\ inbox[t] = NoResult
    /\ \E o \in HttpOutcomes : inbox' = [inbox EXCEPT ![t] = o]
    /\ UNCHANGED <<isSyncing, lastSyncDate, syncError, savedAnchor, task,
                   anchorsAtStart, unsent>>
    /\ UNCHANGED <<serverVars, hkVars>>

\* HKAnchoredObjectQuery / HKActivitySummaryQuery calls its results handler:
\* with an error, or with the anchor of the newest sample HealthKit holds
\* (none is older than an anchor handed out before) and the samples past the
\* anchor the query was given that match its date predicate
QueryCompletes(t) ==
    /\ task[t].pc = "fetch"
    /\ inbox[t] = NoResult
    /\ LET d == task[t].dataType
       IN  \/ inbox' = [inbox EXCEPT ![t] =
                          [NoResult EXCEPT !.kind = "query", !.failed = TRUE]]
           \/ /\ d = ActivityRings
              /\ \E n \in 0..1 :
                   inbox' = [inbox EXCEPT ![t] =
                               [NoResult EXCEPT !.kind = "query",
                                                !.count = n]]
           \/ /\ d \in AnchoredTypes
              /\ \E newest \in savedAnchor[d]..MaxSamples :
                   LET from == IF t = "import" THEN NoAnchor ELSE savedAnchor[d]
                   IN  \E n \in 0..(newest - from) :
                         /\ unsent[d] = "inWindow" => n > 0
                         /\ inbox' = [inbox EXCEPT ![t] =
                                       [NoResult EXCEPT !.kind = "query",
                                                        !.count = n,
                                                        !.newAnchor = newest]]
    /\ UNCHANGED <<isSyncing, lastSyncDate, syncError, savedAnchor, task,
                   anchorsAtStart, unsent>>
    /\ UNCHANGED <<serverVars, hkVars>>

\* A catch block that returns with the in-progress flag still set
CatchAndReturn(t, message) ==
    /\ syncError' = message
    /\ task' = [task EXCEPT ![t] = Idle]
    /\ inbox' = [inbox EXCEPT ![t] = NoResult]
    /\ anchorsAtStart' = savedAnchor
    /\ UNCHANGED <<isSyncing, savedAnchor, lastSyncDate>>

\* A catch block that puts every anchor back to what the run started with
CatchRollingBack(t, message) ==
    /\ syncError' = message
    /\ isSyncing' = FALSE
    /\ task' = [task EXCEPT ![t] = Idle]
    /\ inbox' = [inbox EXCEPT ![t] = NoResult]
    /\ savedAnchor' = anchorsAtStart
    /\ anchorsAtStart' = anchorsAtStart
    /\ UNCHANGED lastSyncDate

\* } catch { syncError = ...; syncStatus = ... }  isSyncing = false
Catch(t, message) ==
    /\ syncError' = message
    /\ isSyncing' = FALSE
    /\ task' = [task EXCEPT ![t] = Idle]
    /\ inbox' = [inbox EXCEPT ![t] = NoResult]
    /\ anchorsAtStart' = savedAnchor
    /\ UNCHANGED <<savedAnchor, lastSyncDate>>

\* lastSyncDate = now; UserDefaults.standard.set(now, ...)  isSyncing = false
Complete(t) ==
    /\ lastSyncDate' = "set"
    /\ isSyncing' = FALSE
    /\ task' = [task EXCEPT ![t] = Idle]
    /\ inbox' = [inbox EXCEPT ![t] = NoResult]
    /\ anchorsAtStart' = savedAnchor'
    /\ UNCHANGED syncError

\* The run goes on with data type d: the query is started, the task suspends
Proceed(t, d) ==
    /\ task' = [task EXCEPT ![t] = At("fetch", d, NoAnchor)]
    /\ inbox' = [inbox EXCEPT ![t] = NoResult]
    /\ UNCHANGED <<isSyncing, lastSyncDate, syncError, anchorsAtStart>>

\* performFullSync resumes after api.healthCheck()
AfterHealthCheck(t) ==
    /\ task[t].pc = "healthCheck"
    /\ inbox[t] # NoResult
    /\ IF makeRequest(inbox[t]) # "decoded"
       THEN Catch(t, makeRequest(inbox[t]))
       ELSE IF ~healthCheck(inbox[t])
       THEN Catch(t, "Backend health check failed")
       ELSE Proceed(t, "workouts") /\ UNCHANGED savedAnchor
    /\ UNCHANGED unsent
    /\ UNCHANGED <<serverVars, hkVars>>

\* The anchor of data type d moves on.  The records of d that were unsent
\* and in the window have been part of the batch just accepted; those that
\* were out of the window are behind the anchor now, and no later query
\* returns them: nothing of d is left to follow
Accepted(d) ==
    [e \in AnchoredTypes |-> IF e = d THEN "none" ELSE unsent[e]]

\* The batch of data type d just fetched was not accepted
Refused(d) ==
    [e \in AnchoredTypes |->
        IF e = d /\ unsent[e] = "none" THEN "inWindow" ELSE unsent[e]]

\* lastSyncDate has moved to now: the start date of every later query
\* (lastSyncDate ?? ...) lies after the dates of the records held so far
WindowMoved(u) ==
    [e \in AnchoredTypes |-> IF u[e] = "inWindow" THEN "outOfWindow" ELSE u[e]]

\* A run that goes on to the next data type without saving the anchor
GoOnUnsaved(t, d, a) ==
    /\ savedAnchor' = savedAnchor
    /\ IF NextType(t, d) = "done"
       THEN Complete(t) /\ unsent' = WindowMoved(Accepted(d))
       ELSE Proceed(t, NextType(t, d)) /\ unsent' = Accepted(d)

\* saveAnchor(newAnchor, forKey:) for the data type just processed, then on to
\* the next one or to the end of the run
SaveAndGoOn(t, d, a) ==
    /\ savedAnchor' = IF d \in AnchoredTypes /\ a # NoAnchor
                 THEN [savedAnchor EXCEPT ![d] = a] ELSE savedAnchor
    /\ IF NextType(t, d) = "done"
       THEN Complete(t) /\ unsent' = WindowMoved(Accepted(d))
       ELSE Proceed(t, NextType(t, d)) /\ unsent' = Accepted(d)

\* syncWorkouts / syncHealthMetrics / syncActivityRings resume after the
\* HealthKit query
AfterFetch(t) ==
    /\ task[t].pc = "fetch"
    /\ inbox[t] # NoResult
    /\ LET d == task[t].dataType
       IN  IF inbox[t].failed
           THEN Catch(t, "HKError") /\ UNCHANGED unsent
           ELSE IF inbox[t].count > 0
           THEN /\ task' = [task EXCEPT ![t] = At("post", d, inbox[t].newAnchor)]
                /\ inbox' = [inbox EXCEPT ![t] = NoResult]
                /\ UNCHANGED <<isSyncing, lastSyncDate, syncError, savedAnchor,
                               anchorsAtStart, unsent>>
           ELSE SaveAndGoOn(t, d, inbox[t].newAnchor)
    /\ UNCHANGED <<serverVars, hkVars>>

\* ... and after api.syncWorkouts / syncHealthMetrics / syncActivityRings
AfterPost(t) ==
    /\ task[t].pc = "post"
    /\ inbox[t] # NoResult
    /\ IF makeRequest(inbox[t]) = "decoded"
       THEN SaveAndGoOn(t, task[t].dataType, task[t].newAnchor)
       ELSE Catch(t, makeRequest(inbox[t]))
            /\ unsent' = IF task[t].dataType \in AnchoredTypes
                         THEN Refused(task[t].dataType) ELSE unsent
    /\ UNCHANGED <<serverVars, hkVars>>

\* The batch a suspended task holds: fetched (results handler called with
\* samples) or in a submission that has not been answered to the task
Holds(t, d) ==
    /\ task[t].dataType = d
    /\ \/ task[t].pc = "post"
       \/ task[t].pc = "fetch" /\ inbox[t].count > 0

\* What is left unsent when every task is abandoned
Abandoned ==
    [e \in AnchoredTypes |->
        IF unsent[e] = "none" /\ \E t \in Tasks : Holds(t, e)
        THEN "inWindow" ELSE unsent[e]]

\* The process is terminated during a run and the app is started again:
\* every task is gone, the published properties are back at their initial
\* values, and init() reads back what UserDefaults holds (lastSyncDate, the
\* archived anchors)
Terminate ==
    /\ isSyncing
    /\ isSyncing' = FALSE
    /\ syncError' = "nil"
    /\ task' = [t \in Tasks |-> Idle]
    /\ inbox' = [t \in Tasks |-> NoResult]
    /\ anchorsAtStart' = savedAnchor
    /\ unsent' = Abandoned
    /\ UNCHANGED <<savedAnchor, lastSyncDate>>
    /\ UNCHANGED <<serverVars, hkVars>>

\* The tasks of the observer model: the observer's and the one of the
\* Sync Now button, whose run may be in progress when the observer fires
ObserverTasks == {"observer", "syncNow"}

\* An update handler that returns on an error without completionHandler()
updateHandlerSilentOnError(error) ==
    IF error
    THEN /\ handler' = [invoked |-> TRUE, error |-> TRUE, pending |-> FALSE,
                         calls |-> 0]
         /\ UNCHANGED task
    ELSE /\ handler' = [invoked |-> TRUE, error |-> FALSE, pending |-> TRUE,
                         calls |-> 0]
         /\ task' = [task EXCEPT !["observer"] = At("queued", "-", NoAnchor)]

\* { query, completionHandler, error in ... }: with an error,
\* completionHandler() and return; else Task { await
\* handleBackgroundDelivery(for:); completionHandler() }
updateHandler(error) ==
    IF error
    THEN /\ handler' = [invoked |-> TRUE, error |-> TRUE, pending |-> FALSE,
                         calls |-> 1]
         /\ UNCHANGED task
    ELSE /\ handler' = [invoked |-> TRUE, error |-> FALSE, pending |-> TRUE,
                         calls |-> 0]
         /\ task' = [task EXCEPT !["observer"] = At("queued", "-", NoAnchor)]

\* HealthKit calls the update handler of an observer query
ObserverFires ==
    /\ task["observer"].pc = "idle"
    /\ ~handler.pending
    /\ \E error \in BOOLEAN : updateHandler(error)
    /\ UNCHANGED <<isSyncing, lastSyncDate, syncError, savedAnchor, inbox,
                   anchorsAtStart, unsent, healthStore, fetched>>
    /\ UNCHANGED serverVars

\* await self?.handleBackgroundDelivery(for:) has returned:
\* completionHandler()
CompletionHandler ==
    /\ handler.pending
    /\ task["observer"].pc = "idle"
    /\ handler' = [handler EXCEPT !.pending = FALSE, !.calls = @ + 1]
    /\ UNCHANGED <<healthStore, fetched>>
    /\ UNCHANGED <<serverVars, clientVars>>

NextObserver ==
    \/ ObserverFires
    \/ CompletionHandler
    \/ Trigger("syncNow")
    \/ \E t \in ObserverTasks : performFullSync(t)
    \/ \E t \in ObserverTasks : HttpResponds(t)
    \/ \E t \in ObserverTasks : QueryCompletes(t)
    \/ \E t \in ObserverTasks : AfterHealthCheck(t)
    \/ \E t \in ObserverTasks : AfterFetch(t)
    \/ \E t \in ObserverTasks : AfterPost(t)

NextOrchestrator ==
    \/ \E t \in Tasks : Trigger(t)
    \/ \E t \in Tasks : performFullSync(t)
    \/ \E t \in Tasks : performHistoricalImport(t)
    \/ \E t \in Tasks : HttpResponds(t)
    \/ \E t \in Tasks : QueryCompletes(t)
    \/ \E t \in Tasks : AfterHealthCheck(t)
    \/ \E t \in Tasks : AfterFetch(t)
    \/ \E t \in Tasks : AfterPost(t)

----------------------------------------------------------------------------
(* Specifications *)

Next ==
    \/ Receive
    \/ Refuse
    \/ Health
    \/ Finish
    \/ PostWorkouts
    \/ PostHealthMetrics
    \/ PostActivityRings
    \/ PostAnchors
    \/ GetAnchor
    \/ GetWorkoutDetails
    \/ GetWorkoutRouteData
    \/ GetActivityRingsByDate

Init == InitServer /\ InitClient

InitOrchestrator ==
    /\ InitClient
    /\ endpoint = "workouts"
    /\ workouts = {} /\ workout_routes = {} /\ health_metrics = {}
    /\ activity_rings = {} /\ sync_anchors = {}
    /\ req = NoReq /\ res = NoRes
    /\ got = NoGot /\ lastPut = NeverPut
    /\ gate = NoGate
    /\ InitTx

Spec == Init /\ [][Next]_vars

SpecOrchestrator == InitOrchestrator /\ [][NextOrchestrator]_vars

\* The ingestion service under two concurrent requests of one endpoint
InitDashboard == Init /\ endpoint \in {"workouts", "activity-rings"}

SpecDashboard == InitDashboard /\ [][NextDashboard]_vars

SpecObserver == InitOrchestrator /\ [][NextObserver]_vars

SpecQuery == InitOrchestrator /\ [][NextQuery]_vars

SpecConcurrent == Init /\ [][NextConcurrent]_vars

\* The append-only endpoints under the requests of two owners
InitOwners == Init /\ endpoint \in {"workouts", "health-metrics"}

SpecOwners == InitOwners /\ [][NextOwners]_vars

\* A run in progress takes its next step: the call it awaits completes
\* (URLSession answers or times out, HealthKit calls the results handler) and
\* the main actor resumes the task
RunStep ==
    \E t \in Tasks :
       \/ HttpResponds(t)
       \/ QueryCompletes(t)
       \/ AfterHealthCheck(t)
       \/ AfterFetch(t)
       \/ AfterPost(t)

SpecOrchestratorFair == SpecOrchestrator /\ WF_vars(RunStep)

\* The task the update handler created is scheduled, the run it awaits takes
\* its steps, and the task goes on to completionHandler() when it resumes
SpecObserverFair ==
    /\ SpecObserver
    /\ WF_vars(RunStep)
    /\ WF_vars(performFullSync("observer"))
    /\ WF_vars(CompletionHandler)

\* The orchestrator in a process that can be terminated and started again
NextTerminate ==
    \/ NextOrchestrator
    \/ Terminate

SpecTerminate == InitOrchestrator /\ [][NextTerminate]_vars

----------------------------------------------------------------------------
(* Properties of the sync orchestrator, checked under SpecOrchestrator *)

\* A task is inside a run: past the guard and not yet back
Running(t) == task[t].pc \notin {"idle", "queued"}

\* The submission a task awaits has failed: no response, an error status, or
\* a body that does not decode
PostFailed(t) ==
    /\ task[t].pc = "post"
    /\ inbox[t] # NoResult
    /\ \/ ~inbox[t].arrived
       \/ inbox[t].statusCode \in ErrorCodes
       \/ inbox[t].json = "garbage"

\* The HealthKit query a task awaits has failed
FetchFailed(t) ==
    /\ task[t].pc = "fetch"
    /\ inbox[t] # NoResult
    /\ inbox[t].failed

\* The call a task awaits for data type d has come back well: the submission
\* was accepted, or the query found nothing to submit
StepSucceeded(t, d) ==
    /\ task[t].dataType = d
    /\ inbox[t] # NoResult
    /\ \/ /\ task[t].pc = "post"
          /\ inbox[t].arrived
          /\ inbox[t].statusCode \in SuccessCodes
          /\ inbox[t].json # "garbage"
       \/ /\ task[t].pc = "fetch"
          /\ ~inbox[t].failed
          /\ inbox[t].count = 0

\* C1: the stored anchor of a data type changes only in a step in which the
\* backend has accepted the submission of that type (or the query found no
\* sample to submit); when the fetch or the submission of a type fails, the
\* run ends with every stored anchor as it was, that type's being the one
\* the run started with
C1_AnchorAdvancesOnlyOnSuccess ==
    [][ /\ \A d \in AnchoredTypes :
             savedAnchor'[d] # savedAnchor[d] =>
                 \E t \in Tasks : StepSucceeded(t, d) /\ task'[t] # task[t]
        /\ \A t \in Tasks :
             ((PostFailed(t) \/ FetchFailed(t)) /\ task'[t] # task[t]) =>
                 /\ savedAnchor' = savedAnchor
                 /\ task[t].dataType \in AnchoredTypes =>
                        savedAnchor'[task[t].dataType] = anchorsAtStart[task[t].dataType]
                 /\ task'[t] = Idle
      ]_vars

\* C1 witness: the submission of an anchored type has failed while the query
\* had handed back an anchor newer than the stored one
C1_Witness ==
    \E t \in Tasks :
        /\ PostFailed(t)
        /\ task[t].dataType \in AnchoredTypes
        /\ task[t].newAnchor # savedAnchor[task[t].dataType]
        /\ inbox[t].statusCode = 500

AtMostOneRun == Cardinality({ t \in Tasks : Running(t) }) <= 1

\* C2: at most one run is in progress at any time, is-syncing is set exactly
\* while one is, and a trigger that arrives while is-syncing is set returns
\* at once and changes nothing of the run in progress or of the stored state
C2_AtMostOneRun ==
    [][ /\ AtMostOneRun'
        /\ isSyncing' <=> (\E t \in Tasks : Running(t)')
        /\ \A t \in Tasks :
             (task[t].pc = "queued" /\ isSyncing /\ task'[t] # task[t]) =>
                 /\ task'[t] = Idle
                 /\ \A u \in Tasks \ {t} : task'[u] = task[u]
                 /\ UNCHANGED <<isSyncing, lastSyncDate, syncError, savedAnchor,
                                inbox, anchorsAtStart>>
                 /\ UNCHANGED <<serverVars, hkVars>>
      ]_vars

\* C2 witness: a trigger is pending while the run of another is in progress
C2_Witness ==
    \E t \in Tasks : \E u \in Tasks \ {t} :
        /\ task[t].pc = "queued"
        /\ Running(u)
        /\ task[u].pc = "post"
        /\ isSyncing

\* C4: in a full sync, a data type that is not the last one is followed by the
\* next one whatever became of it: the step that ends its fetch or its
\* submission leaves the run in progress
C4_FailureIsolationAcrossTypes ==
    [][ \A t \in Tasks \ {"import"} :
          (/\ task[t].pc \in {"fetch", "post"}
           /\ task[t].dataType # ActivityRings
           /\ task'[t] # task[t]) => Running(t)'
      ]_vars

----------------------------------------------------------------------------
(* Properties of the Ingestion Service, checked under Spec *)

Tables ==
    <<workouts, workout_routes, health_metrics, activity_rings, sync_anchors>>

\* The table of an append-only endpoint
TableOf(e) == IF e = "workouts" THEN workouts ELSE health_metrics

\* The rows of a table that carry the dedup key of a record
RowsOf(table, rec) == { r \in table : r.healthkit_uuid = rec.healthkit_uuid }

\* A record the schema takes: its required fields are there and the corners
\* of its route fit their columns
WellFormed(e, rec) ==
    IF e = "workouts" THEN rec.workout_type # NULL /\ rec.route # BadRoute
    ELSE rec.value # NULL

\* A controller acts on the request at hand and sends a response
HandlerActs == req # NoReq /\ req' = req /\ res' # NoRes

\* The response shows no storage failure: no exception reached the
\* controller and no record met a lost connection
Healthy(r) ==
    /\ ~(r.status = 500 /\ r.body = "error")
    /\ \A i \in DOMAIN r.errors : r.errors[i].error # ConnectionLost

\* Record i of the list carries a key that is stored or that an earlier
\* record of the list carries
IsDuplicate(e, list, i) ==
    \/ RowsOf(TableOf(e), list[i]) # {}
    \/ \E j \in 1..(i - 1) : list[j].healthkit_uuid = list[i].healthkit_uuid

\* C3: with storage healthy, an append-only batch submitted again right
\* after it was answered leaves every table as it was, and each record the
\* first answer reported as synced is reported as skipped
C3_IdempotentIngestion ==
    [][ (/\ AppendOnly(endpoint)
         /\ HandlerActs
         /\ res # NoRes
         /\ Healthy(res)
         /\ Healthy(res'))
        => /\ Tables' = Tables
           /\ Len(res'.outcomes) = Len(res.outcomes)
           /\ \A i \in DOMAIN res.outcomes :
                res.outcomes[i] = "synced" => res'.outcomes[i] = "skipped"
      ]_vars

\* C3 witness: a batch of two records under two keys has been answered a
\* second time, both skipped, each key stored once
C3_Witness ==
    /\ AppendOnly(endpoint)
    /\ res.status = 200
    /\ Len(req.list.v) = 2
    /\ req.list.v[1].healthkit_uuid # req.list.v[2].healthkit_uuid
    /\ res.skipped = 2
    /\ res.synced = 0
    /\ \A i \in 1..2 : Cardinality(RowsOf(TableOf(endpoint), req.list.v[i])) = 1

\* The one record of the list that the schema rejects
Malformed(e, list) == { i \in 1..Len(list) : ~WellFormed(e, list[i]) }

\* The other records of the list carry keys that are new and differ from
\* one another
OthersValidAndNew(e, list) ==
    \A i \in (1..Len(list)) \ Malformed(e, list) :
        /\ RowsOf(TableOf(e), list[i]) = {}
        /\ \A j \in (1..Len(list)) \ Malformed(e, list) :
             i # j => list[j].healthkit_uuid # list[i].healthkit_uuid

\* What partial-batch isolation promises of the step: the others committed,
\* the malformed record reported as the one error and not stored, 207
PartialSuccess(e, list) ==
    /\ res'.status = 207
    /\ res'.body = "counts"
    /\ res'.success
    /\ res'.synced = Len(list) - 1
    /\ Len(res'.errors) = 1
    /\ \A i \in Malformed(e, list) :
         /\ res'.errors[1].key = ErrorKey(e, list[i])
         /\ res'.outcomes[i] = "error"
    /\ \A i \in (1..Len(list)) \ Malformed(e, list) :
         Cardinality(RowsOf(TableOf(e)', list[i])) = 1
    /\ Cardinality(TableOf(e)') = Cardinality(TableOf(e)) + Len(list) - 1

MalformedIsDuplicate(e, list) ==
    /\ e = "workouts"
    /\ \E i \in Malformed(e, list) :
         list[i].workout_type # NULL /\ IsDuplicate(e, list, i)

Failed(r) == { i \in DOMAIN r.outcomes : r.outcomes[i] = "error" }

\* C6: a bulk ingestion request that passes validation is answered 500
\* exactly when every record failed, 207 exactly when some but not all
\* failed, and 200 exactly when none failed
C6_ResultClassification ==
    [][ (/\ endpoint # "anchors"
         /\ HandlerActs
         /\ Validation(req))
        => LET n == Len(req.list.v)
               f == Cardinality(Failed(res'))
           IN  /\ res'.status = 500 <=> f = n
               /\ res'.status = 207 <=> (0 < f /\ f < n)
               /\ res'.status = 200 <=> f = 0
      ]_vars

\* C7: a bulk ingestion request with an owner and an empty record list is
\* answered with a client error and leaves storage as it was
C7_EmptyListRejected ==
    [][ (/\ endpoint # "anchors"
         /\ HandlerActs
         /\ req.user_id # NoUser
         /\ IsArray(req.list)
         /\ Len(req.list.v) = 0)
        => /\ res'.status = 400
           /\ Tables' = Tables
      ]_vars

C9_StorageFailurePerRecord ==
    [][ (HandlerActs /\ Validation(req))
        => /\ res'.body = "counts"
           /\ Len(res'.outcomes) = Len(req.list.v)
      ]_vars

RingRows(A, userId, date) == { a \in A : a.user_id = userId /\ a.date = date }

\* A summary the schema takes: none of its ring fields is missing
GoodRing(ring) == \A f \in RingFields : ring[f] # NULL

AnchorRows(userId, dataType) ==
    { a \in sync_anchors : a.user_id = userId /\ a.data_type = dataType }

Missing ==
    CASE got.route = "getAnchor" ->
           AnchorRows(got.params.userId, got.params.dataType) = {}
      [] got.route = "getWorkoutDetails" ->
           { w \in workouts : w.id = got.params.id } = {}
      [] got.route = "getWorkoutRouteData" ->
           { r \in workout_routes : r.workout_id = got.params.id } = {}
      [] got.route = "getActivityRingsByDate" ->
           RingRows(activity_rings, got.params.userId, got.params.date) = {}

\* C13: a read whose parameters pass the controller's validation is answered
\* 500 when storage failed, and 404 when storage did not fail and nothing is
\* on file under its parameters
C13_AbsenceIsNotFailure ==
    (got.route # "none" /\ got.status # 400)
    => /\ got.fault = "query" => got.status = 500
       /\ (got.fault = "none" /\ Missing) => got.status = 404

\* The query a task awaits has come back with no record
FetchedNothing(t) ==
    /\ task[t].pc = "fetch"
    /\ inbox[t] # NoResult
    /\ ~inbox[t].failed
    /\ inbox[t].count = 0

\* C14: the step of a run that follows a query which returned zero records
\* leaves every stored anchor as it was
C14_ZeroRecordsAnchorUntouched ==
    [][ \A t \in Tasks :
          (FetchedNothing(t) /\ task'[t] # task[t]) => savedAnchor' = savedAnchor
      ]_vars

\* The liveness probe a task awaits has failed: no response, an error
\* status, a body that does not decode, or a status other than ok
ProbeFailed(t) ==
    /\ task[t].pc = "healthCheck"
    /\ inbox[t] # NoResult
    /\ \/ ~inbox[t].arrived
       \/ inbox[t].statusCode \in ErrorCodes
       \/ inbox[t].json # "ok"

\* C15: the probe is the first thing a full sync awaits; when it fails the
\* run ends there with an error shown, the in-progress flag cleared, and the
\* stored anchors and the last-sync timestamp as they were: no query was
\* started and no batch submitted
C15_Preflight ==
    [][ \A t \in Tasks :
          /\ (task'[t].pc = "healthCheck" /\ task[t].pc # "healthCheck")
                => task[t].pc = "queued"
          /\ (ProbeFailed(t) /\ task'[t] # task[t])
                => /\ task'[t] = Idle
                   /\ syncError' # "nil"
                   /\ ~isSyncing'
                   /\ savedAnchor' = savedAnchor
                   /\ lastSyncDate' = lastSyncDate
      ]_vars

\* C15 witness: a run has ended on a probe answered with a status other than
\* ok, and nothing was ever synced
C15_Witness ==
    /\ syncError = "Backend health check failed"
    /\ ~isSyncing
    /\ \A t \in Tasks : ~Running(t)
    /\ lastSyncDate = "nil"
    /\ \A d \in AnchoredTypes : savedAnchor[d] = NoAnchor

----------------------------------------------------------------------------
\* C16: at-least-once retry.  A record of a batch the service refused
\* stays inside the window of the next query of its data type until a
\* submission that carries it is answered with success: it is never left
\* behind the window (dropped) while still unsent.
Dropped(d) == unsent[d] = "outOfWindow"
C16_AtLeastOnceRetry == \A d \in AnchoredTypes : ~Dropped(d)

----------------------------------------------------------------------------
\* C17: cancellation safety.  Whatever the point at which the process is
\* terminated, what is persisted (the anchors, lastSyncDate) never gets
\* past a record that no answer of the service has acknowledged: no step
\* takes such a record out of the window of the next query of its type.
C17_CancellationSafety ==
    [][\A d \in AnchoredTypes :
          unsent[d] = "inWindow" => unsent'[d] # "outOfWindow"]_vars

----------------------------------------------------------------------------
\* The data types a run has come to, in the order of its loop, up to the one
\* it is at
RECURSIVE UpTo(_, _, _)
UpTo(t, d, last) ==
    IF d = last \/ d = "done" THEN {d} \ {"done"}
    ELSE {d} \cup UpTo(t, NextType(t, d), last)

Attempted(t) ==
    IF task[t].dataType \in SyncTypes
    THEN UpTo(t, "workouts", task[t].dataType) ELSE {}

\* C18: the last-successful-sync timestamp is written only by the step that
\* ends a run after every data type (workouts, each metric type, activity
\* summaries) has been attempted: never earlier in a run, never by a run the
\* guard or the preflight stopped.
C18_TimestampOnlyAtCompletion ==
    [][ lastSyncDate' # lastSyncDate =>
          \E t \in Tasks :
             /\ Running(t) /\ ~Running(t)'
             /\ Attempted(t) = SyncTypes
             /\ StepSucceeded(t, ActivityRings) ]_vars

----------------------------------------------------------------------------
\* The step a task is about to take ends its run with an error
Failing(t) == ProbeFailed(t) \/ FetchFailed(t) \/ PostFailed(t)

\* A failed run is behind and a new run is in progress with no error shown
C19_Witness ==
    /\ \E t \in Tasks : Running(t)
    /\ \E d \in AnchoredTypes : unsent[d] = "inWindow"
    /\ syncError = "nil"
    /\ isSyncing

C19_Step ==
    /\ \A t \in Tasks :
         /\ (task[t].pc = "queued" /\ ~isSyncing /\ task'[t] # task[t]) =>
               (Running(t)' /\ isSyncing' /\ syncError' = "nil")
         /\ (Running(t) /\ ~Running(t)') =>
               /\ ~isSyncing'
               /\ Failing(t) => syncError' # "nil"
               /\ ~Failing(t) => syncError' = "nil"
    /\ (\E t \in Tasks : Running(t)') => isSyncing'
    /\ syncError' # syncError =>
         \E t \in Tasks : \/ task[t].pc = "queued" /\ Running(t)'
                          \/ Running(t) /\ ~Running(t)'

\* C19: errors never block future runs.  Every started run ends and clears
\* the in-progress flag, whatever step failed; a trigger that comes when no
\* run is in progress starts a run, also after a failed one; the error shown
\* is set by the run that failed last and cleared when a run starts.
C19_ErrorsNeverBlock ==
    /\ [][C19_Step]_vars
    /\ isSyncing ~> ~isSyncing

----------------------------------------------------------------------------
\* The routes stored for a workout row
RoutesOf(R, w) == { r \in R : r.workout_id = w.id }

\* Workout row w, with the routes stored for it, is what record rec creates
CreatedFrom(w, R, rec) ==
    /\ rec.healthkit_uuid = w.healthkit_uuid
    /\ rec.workout_type = w.workout_type
    /\ IF Len(rec.route) > 0
       THEN \E r \in RoutesOf(R, w) :
               /\ r.route_points = rec.route
               /\ r.total_points = Len(rec.route)
               /\ RoutesOf(R, w) = {r}
       ELSE RoutesOf(R, w) = {}

\* C20: a route is created together with its parent workout or not at all.
\* Every stored route has a stored parent workout; each workout row a
\* submission creates comes from a record of the batch, with that record's
\* route stored when it carries a non-empty one; a record whose route cannot
\* be stored leaves no workout row; rows and routes stored before stay.
C20_RouteAtomicWithWorkout ==
    [][ /\ \A r \in workout_routes' : \E w \in workouts' : w.id = r.workout_id
        /\ (endpoint = "workouts" /\ HandlerActs) =>
             /\ workouts \subseteq workouts'
             /\ workout_routes \subseteq workout_routes'
             /\ \A w \in workouts' \ workouts :
                  \E i \in 1..Len(req.list.v) :
                     /\ WellFormed("workouts", req.list.v[i])
                     /\ CreatedFrom(w, workout_routes', req.list.v[i])
      ]_vars

\* C20 witness: one batch has stored a workout with its route and has been
\* refused the workout whose route does not fit, of which no row is left
C20_Witness ==
    /\ endpoint = "workouts"
    /\ res.status = 207
    /\ Len(req.list.v) = 2
    /\ req.list.v[1].route = GoodRoute
    /\ req.list.v[2].route = BadRoute
    /\ req.list.v[1].healthkit_uuid # req.list.v[2].healthkit_uuid
    /\ res.synced = 1
    /\ Len(res.errors) = 1
    /\ \E w \in workouts :
         /\ w.healthkit_uuid = req.list.v[1].healthkit_uuid
         /\ \E r \in workout_routes : r.workout_id = w.id
    /\ RowsOf(workouts, req.list.v[2]) = {}

----------------------------------------------------------------------------
\* The route points stored for the workout rows that carry the key of rec
StoredRoutes(W, R, rec) ==
    { r.route_points : r \in { x \in R : \E w \in RowsOf(W, rec) : x.workout_id = w.id } }

\* C21: first-seen route wins.  A workout submitted under a key that is
\* stored already, with whatever route, is skipped as a duplicate, and the
\* routes stored for the workouts on file stay exactly as they were: none
\* inserted, replaced or updated.
C21_FirstSeenRouteWins ==
    [][ (endpoint = "workouts" /\ HandlerActs /\ Healthy(res')) =>
          /\ \A w \in workouts :
               RoutesOf(workout_routes', w) = RoutesOf(workout_routes, w)
          /\ \A i \in DOMAIN res'.outcomes :
               (RowsOf(workouts, req.list.v[i]) # {}
                /\ req.list.v[i].workout_type # NULL)
               => res'.outcomes[i] = "skipped"
      ]_vars

\* C21 witness: a workout stored without a route has been submitted again
\* with a route and one stored with a route again with another; both were
\* skipped and the stored routes are the first ones
C21_Witness ==
    /\ endpoint = "workouts"
    /\ res.status = 200
    /\ res.outcomes = <<"skipped", "skipped">>
    /\ req.list.v[1].route = GoodRoute
    /\ StoredRoutes(workouts, workout_routes, req.list.v[1]) = {}
    /\ req.list.v[2].route = BadRoute
    /\ StoredRoutes(workouts, workout_routes, req.list.v[2]) = {GoodRoute}

----------------------------------------------------------------------------
Lats(points) == { points[i].lat : i \in 1..Len(points) }
Lons(points) == { points[i].lon : i \in 1..Len(points) }

\* C22: bounding-box correctness.  The box stored with every route is the
\* exact minimum and maximum of the latitudes and of the longitudes of its
\* points.
C22_BoundingBoxExact ==
    \A r \in workout_routes :
       /\ r.min_latitude = Min(Lats(r.route_points))
       /\ r.max_latitude = Max(Lats(r.route_points))
       /\ r.min_longitude = Min(Lons(r.route_points))
       /\ r.max_longitude = Max(Lons(r.route_points))

----------------------------------------------------------------------------
(* Properties of concurrent requests, checked under SpecConcurrent *)

\* The rows on file under a key of a mutable table
MutableRows(k) ==
    IF endpoint = "anchors"
    THEN { a \in sync_anchors : a.user_id = k[1] /\ a.data_type = k[2] }
    ELSE { a \in activity_rings : a.user_id = k[1] /\ a.date = k[2] }

\* The fields of a mutable row that a request supplies
SuppliedFields == IF endpoint = "anchors" THEN {"anchor_data"} ELSE RingFields

\* The record a writer upserts has all its required fields
TxWellFormed(t) ==
    \A rec \in tx[t].rec : \A f \in SuppliedFields : rec[f] # NULL

\* C23: concurrent upserts under one key are atomic.  With two requests
\* writing at once to the anchors or to the activity summaries, there is at
\* most one row for each key, every supplied field of it comes from the one
\* upsert that committed last (never a mixture), and an upsert that met no
\* storage failure succeeds.
C23_ConcurrentUpsertAtomic ==
    endpoint \in {"activity-rings", "anchors"} =>
       /\ \A k \in MutableKeys :
            /\ Cardinality(MutableRows(k)) <= 1
            /\ MutableRows(k) = {} <=> lastCommit[k] = {}
            /\ \A row \in MutableRows(k) : \A rec \in lastCommit[k] :
                 \A f \in SuppliedFields : row[f] = rec[f]
       /\ \A t \in Writers :
            (tx[t].pc = "finally" /\ tx[t].fault = "none" /\ TxWellFormed(t))
            => tx[t].success

\* C23 witness: both writers have committed different records under one key,
\* one as an insert and the other as an update
C23_Witness ==
    /\ endpoint \in {"activity-rings", "anchors"}
    /\ \A t \in Writers : tx[t].pc = "finally" /\ tx[t].success
    /\ tx["A"].rec # tx["B"].rec
    /\ \E a \in tx["A"].rec : \E b \in tx["B"].rec :
         TxKey(endpoint, tx["A"].userId, a) = TxKey(endpoint, tx["B"].userId, b)
    /\ tx["A"].updated # tx["B"].updated

----------------------------------------------------------------------------
\* The rows of the append-only table at hand that carry the key of rec
KeyRows(rec) ==
    { r \in TableOf(endpoint) : r.healthkit_uuid = rec.healthkit_uuid }

\* C24: requests of different owners do not interfere.  A workout or metric
\* is turned away as a duplicate only when a row of the same owner carries
\* its identifier: an identifier on file for another owner does not keep it
\* from being stored as new.
C24_OwnersDoNotInterfere ==
    \A t \in Writers :
       (AppendOnly(endpoint) /\ tx[t].pc = "duplicate") =>
          \A rec \in tx[t].rec :
             \E r \in KeyRows(rec) : r.user_id = tx[t].userId

----------------------------------------------------------------------------
(* The shared-secret check, checked under Spec *)

\* The route's handler has not acted for the request at hand
HandlerNotRun == req = NoReq /\ res = NoRes /\ got = NoGot

----------------------------------------------------------------------------
\* The steps a run of task t takes as a regular run does: from the guard to
\* the liveness probe, and from workouts to the first metric type
RegularStep(t) ==
    /\ (task[t].pc = "queued" /\ Running(t)') => task'[t].pc = "healthCheck"
    /\ (Running(t) /\ Running(t)' /\ task[t].dataType = "workouts"
          /\ task'[t].dataType # "workouts") =>
             task'[t].dataType = "heartRate"

\* C26: a historical import is the state machine of a regular run.  It
\* passes the guard, probes the backend, and then goes through workouts,
\* each metric type and the activity summaries, as every run does.
C26_ImportIsRegularRun == [][\A t \in Tasks : RegularStep(t)]_vars

----------------------------------------------------------------------------
(* The connection pool, checked under SpecConcurrent *)

\* C27: every storage transaction releases the client it acquired exactly
\* once on every exit path.  A client is checked out exactly while its
\* transaction is under way, it goes back to the pool in the one step that
\* ends the call (after commit, duplicate rollback, error rollback or a
\* rollback that itself threw), and when every call has returned the pool
\* has no client checked out.
C27_ReleasedOnEveryExit ==
    [][\A t \in Writers :
          /\ (t \in pool') <=> (tx'[t].pc # "idle")
          /\ (t \in pool /\ t \notin pool') <=>
                (tx[t].pc = "finally" /\ tx'[t].pc = "idle")
      ]_vars

\* One call has committed and given its client back; the other is leaving
\* with an exception and still holds its client
C27_Witness ==
    /\ tx["A"].pc = "idle" /\ "A" \notin pool
    /\ TableOf(endpoint) # {}
    /\ tx["B"].pc = "finally" /\ tx["B"].thrown
    /\ pool = {"B"}

----------------------------------------------------------------------------
(* Append-only tables, checked under Spec *)

\* C28: workouts, routes and metric samples are append-only.  No step of the
\* service takes a row out of workouts, workout_routes or health_metrics or
\* changes a field of one: every row on file is on file, field for field,
\* after the step.
C28_AppendOnly ==
    [][ /\ workouts \subseteq workouts'
        /\ workout_routes \subseteq workout_routes'
        /\ health_metrics \subseteq health_metrics'
      ]_vars

\* A sample on file has been submitted again with another value and has
\* been turned away as a duplicate
C28_Witness ==
    /\ endpoint = "health-metrics"
    /\ res # NoRes
    /\ IsArray(req.list)
    /\ \E i \in 1..Len(req.list.v) :
          \E r \in health_metrics :
             /\ r.healthkit_uuid = req.list.v[i].healthkit_uuid
             /\ req.list.v[i].value \notin {NULL, r.value}

----------------------------------------------------------------------------
(* The dashboard, checked under SpecDashboard *)

\* The dashboard request answered last
Recent == got.route = "getRecentDashboardData"

\* The number a days parameter that is the text of an integer stands for
IntegerDays ==
    [text \in QueryDays \ {DaysAbsent, << "a", "b" >>} |->
        CASE text = << "0" >> -> 0
          [] text = << "-", "5" >> -> 0 - 5
          [] text = << "1" >> -> 1
          [] text = << "7" >> -> 7
          [] text = << "9", "0" >> -> 90
          [] text = << "9", "1" >> -> 91]

\* C29: GET /dashboard/recent accepts days only in 1..90 and defaults to 7.
\* A request whose days is an integer below 1 or above 90 is answered 400
\* and no query is run; one whose days is an integer of 1..90 is served
\* with that window and one without days with the window of 7 days.
C29_DaysBetween1And90 ==
    Recent =>
       LET text == got.params.days
       IN  /\ (text \in DOMAIN IntegerDays
                 /\ (IntegerDays[text] < 1 \/ IntegerDays[text] > 90)) =>
                    (got.status = 400 /\ ~got.item.queried)
           /\ (text \in DOMAIN IntegerDays /\ IntegerDays[text] \in 1..90
                 /\ got.fault = "none") =>
                    (got.status = 200 /\ got.item.days = IntegerDays[text])
           /\ (text = DaysAbsent /\ got.fault = "none") =>
                    (got.status = 200 /\ got.item.days = 7)

\* The workouts of the owner asked for that started within the window
InWindow ==
    { w \in workouts :
        /\ w.user_id = got.item.userId
        /\ WorkoutSample(w.healthkit_uuid).started_days_ago <= got.item.days }

ZeroSummary ==
    [total_workouts |-> 0, total_distance_km |-> 0, total_calories |-> 0,
     avg_workout_duration_minutes |-> 0]

\* C30: with storage healthy, GET /dashboard/recent for a window that holds
\* no workout is answered 200, not 404, with an empty workout list and the
\* four summary counters equal to zero.
C30_EmptyWindowIs200 ==
    (Recent /\ got.fault = "none" /\ got.status # 400) =>
       /\ got.status = 200
       /\ (InWindow = {}) =>
             (got.item.workouts = << >> /\ got.item.summary = ZeroSummary)

\* The owner has a workout on file, older than the 7 days asked for
C30_Witness ==
    /\ Recent /\ got.status = 200
    /\ got.params.days = << "7" >>
    /\ \E w \in workouts : w.user_id = got.item.userId
    /\ InWindow = {}
    /\ got.item.workouts = << >>
    /\ got.item.summary = ZeroSummary

----------------------------------------------------------------------------
(* The anchor endpoint's body, checked under Spec *)

\* C31: POST /sync/anchors with a body that names one anchor directly
\* (user_id, data_type and anchor_data at the top level, no anchors array) is
\* answered 200 and an anchor of that owner is on file.  The controller
\* reads user_id and anchors alone, so such a body is one without a list.
C31_DirectAnchorBodyAccepted ==
    (endpoint = "anchors" /\ res # NoRes /\ req.user_id # NoUser
       /\ req.list = JsUndefined) =>
          /\ res.status = 200
          /\ \E a \in sync_anchors : a.user_id = req.user_id

----------------------------------------------------------------------------
(* Anchor persistence, checked under SpecOrchestrator *)

\* The submission task t awaits has been answered 200 or 207 with a body
\* that decodes
PostAccepted(t) ==
    /\ task[t].pc = "post"
    /\ inbox[t] # NoResult
    /\ inbox[t].arrived
    /\ inbox[t].statusCode \in {200, 207}
    /\ inbox[t].json # "garbage"

\* C32: when the submission for a data type is answered 200 or 207, the
\* run stores the anchor that came with the query result; the stored anchor
\* of a type under submission changes in no other step, and the step that
\* starts a submission stores nothing.
C32_AnchorSavedAfterResponse ==
    [][\A t \in Tasks :
          LET d == task[t].dataType
          IN  /\ (PostAccepted(t) /\ task'[t] # task[t] /\ d \in AnchoredTypes) =>
                    savedAnchor'[d] = task[t].newAnchor
              /\ (task[t].pc = "post" /\ d \in AnchoredTypes
                    /\ savedAnchor'[d] # savedAnchor[d]) =>
                       (PostAccepted(t) /\ task'[t] # task[t])
              /\ (task[t].pc # "post" /\ task'[t].pc = "post") =>
                    savedAnchor' = savedAnchor
      ]_vars

\* A submission has been answered 207 while the query had handed back an
\* anchor newer than the stored one
C32_Witness ==
    \E t \in Tasks :
        /\ PostAccepted(t)
        /\ inbox[t].statusCode = 207
        /\ task[t].dataType \in AnchoredTypes
        /\ task[t].newAnchor # savedAnchor[task[t].dataType]

----------------------------------------------------------------------------
(* The upstream query, checked under SpecQuery *)

\* C33: when an anchor is stored, the query of a run returns every record
\* saved to the source since that anchor, whatever the record's own start
\* date; the lookback window restricts the query only when no anchor is
\* stored.
C33_AnchorAloneSelects ==
    (fetched.asked /\ fetched.anchor # NoAnchor) =>
        fetched.samples = { w \in healthStore : w.seq > fetched.anchor }

----------------------------------------------------------------------------
(* The observer's completion handler, checked under SpecObserver *)

\* C34: each call of an observer's update handler calls its completion
\* handler exactly once.  With an error it is called in the handler itself;
\* without one it is called once the run the handler started has returned,
\* also when the guard made that run a no-op, and not before; a handler
\* that waits for its run is called in the end.
C34_CompletionHandlerOnce ==
    [][ /\ handler'.calls <= 1
        /\ (handler'.invoked /\ ~handler'.pending) => handler'.calls = 1
        /\ handler'.pending => handler'.calls = 0
        /\ (handler.pending /\ handler'.calls # handler.calls) =>
              (~Running("observer") /\ task["observer"].pc # "queued")
        /\ (Running("observer") \/ task["observer"].pc = "queued") =>
              handler.pending
      ]_vars
    /\ (handler.pending ~> ~handler.pending)

\* The observer fired while a run was in progress; the guard has turned its
\* run into a no-op and the completion handler has been called, the other
\* run still going
C34_Witness ==
    /\ handler.invoked /\ ~handler.error
    /\ ~handler.pending /\ handler.calls = 1
    /\ task["observer"].pc = "idle"
    /\ Running("syncNow")
    /\ isSyncing

\* The endpoints whose records are upserted
Upserts == {"activity-rings", "anchors"}

\* The rows of an upsert table that carry the key of a record
UpsertRows(e, table, userId, rec) ==
    IF e = "activity-rings"
    THEN { a \in table : a.user_id = userId /\ a.date = rec.date }
    ELSE { a \in table : a.user_id = userId /\ a.data_type = rec.data_type }

\* Two records of one upsert endpoint carry the same key
SameKey(e, r1, r2) ==
    IF e = "activity-rings" THEN r1.date = r2.date ELSE r1.data_type = r2.data_type

\* The fields an upsert writes
Written(e) == IF e = "activity-rings" THEN RingFields ELSE {"anchor_data"}

\* The number of records a response gives an outcome
Outcomes(r, o) == Cardinality({ i \in DOMAIN r.outcomes : r.outcomes[i] = o })

\* C35: in an answered batch of activity summaries or anchors, each record
\* that was applied is counted synced when no row existed for its key and
\* updated when one existed, on file or written by an earlier record of the
\* batch; the counters of the answer are the numbers of such records; and of
\* two applied records with one key and no row on file, the first is counted
\* synced, the second updated, and the row stored carries the second one's
\* values
C35_UpsertCounting ==
    [][ (/\ endpoint \in Upserts
         /\ res = NoRes
         /\ HandlerActs
         /\ Validation(req)
         /\ res'.body = "counts")
        => LET e == endpoint
               list == req.list.v
               userId == req.user_id
               before == IF e = "activity-rings" THEN activity_rings ELSE sync_anchors
               after == IF e = "activity-rings" THEN activity_rings' ELSE sync_anchors'
               applied(i) == res'.outcomes[i] # "error"
               existed(i) == \/ UpsertRows(e, before, userId, list[i]) # {}
                             \/ \E j \in 1..(i - 1) :
                                  applied(j) /\ SameKey(e, list[j], list[i])
           IN  /\ Len(res'.outcomes) = Len(list)
               /\ \A i \in 1..Len(list) :
                    applied(i) =>
                        res'.outcomes[i] = IF existed(i) THEN "updated" ELSE "synced"
               /\ res'.synced = Outcomes(res', "synced")
               /\ res'.updated = Outcomes(res', "updated")
               /\ (/\ Len(list) = 2
                   /\ SameKey(e, list[1], list[2])
                   /\ UpsertRows(e, before, userId, list[1]) = {}
                   /\ applied(1) /\ applied(2))
                  => /\ res'.outcomes = <<"synced", "updated">>
                     /\ res'.synced = 1 /\ res'.updated = 1
                     /\ \E a \in after :
                          /\ UpsertRows(e, after, userId, list[2]) = {a}
                          /\ \A f \in Written(e) : a[f] = list[2][f]
      ]_vars

\* C35 witness: an anchor batch of two records for one data type with
\* different payloads was answered 200 with one synced and one updated, and
\* the one row on file for the data type carries the second payload
C35_Witness ==
    /\ endpoint = "anchors"
    /\ res.status = 200
    /\ Len(req.list.v) = 2
    /\ req.list.v[1].data_type = req.list.v[2].data_type
    /\ req.list.v[1].anchor_data # req.list.v[2].anchor_data
    /\ res.synced = 1 /\ res.updated = 1
    /\ \E a \in sync_anchors :
         /\ UpsertRows("anchors", sync_anchors, req.user_id, req.list.v[2]) = {a}
         /\ a.anchor_data = req.list.v[2].anchor_data

\* C36: every stored route has a point count equal to the length of its
\* stored point sequence and at least one point, and belongs to a stored
\* workout; every workout has at most one route; and a workout that a record
\* without route points creates is stored without any route
C36_RouteShape ==
    /\ [](/\ \A r \in workout_routes :
               /\ r.total_points = Len(r.route_points)
               /\ r.total_points >= 1
               /\ \E w \in workouts : w.id = r.workout_id
           /\ \A w \in workouts :
               Cardinality(RoutesOf(workout_routes, w)) <= 1)
    /\ [][ (/\ endpoint = "workouts"
             /\ res = NoRes
             /\ HandlerActs
             /\ Validation(req))
            => \A w \in workouts' \ workouts :
                 (\A i \in 1..Len(req.list.v) :
                     req.list.v[i].healthkit_uuid = w.healthkit_uuid
                        => Len(req.list.v[i].route) = 0)
                 => RoutesOf(workout_routes', w) = {}
          ]_vars

\* C36 witness: a batch of a workout with a route of two points and a workout
\* without route was stored, the first with one route row of two points, the
\* second with none
C36_Witness ==
    /\ endpoint = "workouts"
    /\ res.status = 200
    /\ Len(req.list.v) = 2
    /\ Len(req.list.v[1].route) = 2
    /\ Len(req.list.v[2].route) = 0
    /\ \E w1 \in workouts : \E w2 \in workouts :
         /\ w1.healthkit_uuid = req.list.v[1].healthkit_uuid
         /\ w2.healthkit_uuid = req.list.v[2].healthkit_uuid
         /\ \E r \in workout_routes :
              RoutesOf(workout_routes, w1) = {r} /\ r.total_points = 2
         /\ RoutesOf(workout_routes, w2) = {}

\* C37: in every batch response that carries counts (200, 207 or the 500 of
\* a batch whose records all failed), synced + skipped + the number of error
\* entries is the number of records submitted for workouts and metrics, and
\* synced + updated + the number of error entries is that number for
\* activity summaries and anchors; each record submitted is counted once
C37_CountConservation ==
    [][ (/\ res = NoRes
         /\ HandlerActs
         /\ res'.body = "counts")
        => LET n == Len(req.list.v)
           IN  /\ res'.status \in {200, 207, 500}
               /\ IF AppendOnly(endpoint)
                  THEN res'.synced + res'.skipped + Len(res'.errors) = n
                  ELSE res'.synced + res'.updated + Len(res'.errors) = n
               /\ Len(res'.outcomes) = n
               /\ res'.synced = Outcomes(res', "synced")
               /\ res'.skipped = Outcomes(res', "skipped")
               /\ res'.updated = Outcomes(res', "updated")
               /\ Len(res'.errors) = Outcomes(res', "error")
      ]_vars

\* C37 witness: a batch of two workouts was answered 207 with one record
\* skipped as a duplicate and one listed as an error
C37_Witness ==
    /\ endpoint = "workouts"
    /\ res.status = 207
    /\ Len(req.list.v) = 2
    /\ res.synced = 0
    /\ res.skipped = 1
    /\ Len(res.errors) = 1

\* Writer t has a transaction at its end that met no storage fault, on a
\* well-formed record whose key was not on file when it began
CleanRun(t) ==
    /\ tx[t].pc = "finally"
    /\ tx[t].fault = "none" /\ ~tx[t].thrown
    /\ ~tx[t].onFile
    /\ \A rec \in tx[t].rec : WellFormed(endpoint, rec)

\* What the controller counts the result of writer t as
CountedAs(t) ==
    IF tx[t].success THEN "synced"
    ELSE IF tx[t].error = DuplicateError(endpoint) THEN "skipped"
    ELSE "error"

\* C38: when two requests submit at once a workout (or a metric) with the
\* same dedup key that was not on file, with storage healthy and the records
\* well-formed, then under every interleaving one row with that key is
\* stored, one request counts the record as synced and the other as
\* skipped, and neither counts it as an error
C38_ConcurrentDuplicate ==
    (/\ AppendOnly(endpoint)
     /\ \A t \in Writers : CleanRun(t)
     /\ \E a \in tx["A"].rec : \E b \in tx["B"].rec :
          a.healthkit_uuid = b.healthkit_uuid)
    => /\ \A rec \in tx["A"].rec : Cardinality(KeyRows(rec)) = 1
       /\ {CountedAs(t) : t \in Writers} = {"synced", "skipped"}

\* C38 witness: writer B, which began while no row with the key was on file
\* and had to wait for writer A's transaction, was handed a duplicate after
\* A committed, and both are about to return
C38_Witness ==
    /\ endpoint = "workouts"
    /\ \A t \in Writers : CleanRun(t)
    /\ \E a \in tx["A"].rec : \E b \in tx["B"].rec :
         a.healthkit_uuid = b.healthkit_uuid /\ a # b
    /\ tx["A"].success
    /\ CountedAs("B") = "skipped"

----------------------------------------------------------------------------
(* Independence of the anchors, checked under SpecOrchestrator *)

\* The data types a run of task t comes to after data type d
LaterTypes(t, d) ==
    LET n1 == NextType(t, d)
        n2 == NextType(t, n1)
        n3 == NextType(t, n2)
    IN  {n1, n2, n3} \cap SyncTypes

\* The anchored data types the run of task t has not come to when it is at d
NotReached(t, d) ==
    { o \in AnchoredTypes \ {d} : d \notin LaterTypes(t, o) }

\* C39: the step in which the fetch or the submission of a data type fails
\* leaves the stored anchor of every other data type as it was: an anchor the
\* run has advanced before stays advanced, and the anchor of a type the run
\* has not come to is the one the run started with
C39_AnchorsIndependent ==
    [][\A t \in Tasks :
          ((PostFailed(t) \/ FetchFailed(t)) /\ task'[t] # task[t]) =>
              LET d == task[t].dataType
              IN  /\ \A o \in AnchoredTypes \ {d} :
                       savedAnchor'[o] = savedAnchor[o]
                  /\ \A o \in NotReached(t, d) :
                       savedAnchor'[o] = anchorsAtStart[o]
                  /\ ~Running(t)'
      ]_vars

\* C39 witness: the submission of heart rate has failed in a run that has
\* advanced the anchor of workouts before
C39_Witness ==
    \E t \in Tasks :
        /\ PostFailed(t)
        /\ task[t].dataType = "heartRate"
        /\ savedAnchor["workouts"] # anchorsAtStart["workouts"]
        /\ savedAnchor["stepCount"] = anchorsAtStart["stepCount"]

====
